---- MODULE Spec2Model ----
(***************************************************************************)
(* Verification model of the ingestion consistency layer of                *)
(* letterboxd_scraper (services/ratings.py, services/cohorts.py,           *)
(* services/enrichment.py, db/session.py, db/models.py).                   *)
(*                                                                         *)
(* The database is modelled as three committed tables plus, per worker,    *)
(* the rows its open transaction has written and not yet committed         *)
(* (READ COMMITTED: a statement sees the committed rows overlaid with the  *)
(* writer's own uncommitted rows; a write that touches a row or a unique   *)
(* key another open transaction has written waits for that transaction).   *)
(* On top of the transaction sits the ORM unit of work of one Session      *)
(* created with autoflush=False (db/session.py:24): loaded objects keep    *)
(* their in-memory attribute values, new objects stay pending until a      *)
(* flush, and a flush writes only the attributes that changed.             *)
(*                                                                         *)
(* Film columns modelled: id, slug, letterboxd_film_id (0 is NULL).  The   *)
(* remaining film columns carry no uniqueness and steer no control flow    *)
(* of the modelled functions.  Users are keyed by letterboxd_username      *)
(* (unique, never updated), which stands for the surrogate user id.        *)
(* Time is a logical clock that may advance when a batch starts; a         *)
(* timestamp of 0 is NULL.  A rating of 0 is None, 1 and 2 are two         *)
(* distinct values.                                                        *)
(***************************************************************************)
EXTENDS Integers, Sequences, FiniteSets, TLC

MaxBatches == 2
MaxRecords == 2

Workers == {1, 2}
Usernames == {"u1", "u2"}
Slugs == {"a", "b"}
Lids == {1, 2}
FilmIds == 1..Cardinality(Slugs)

VARIABLES
  dialect,   \* bind.dialect.name of the engine
  films,     \* committed rows of table films
  users,     \* committed rows of table users
  ratings,   \* committed rows of table ratings
  tx,        \* per worker: rows written by its open transaction
  sess,      \* per worker: the Session (unit of work) and the position in upsert_ratings
  clock,     \* logical time
  started,   \* number of batches started
  hist,      \* inputs and result of a recorded batch, for replaying the identical call
  scrape,    \* workflows.py scrape_user_ratings: the locals of one call
  batch,     \* a batch of per-user scrapes: the loop or pool position and its accounting
  merge,     \* cli.py cleanup_dedupe_films: the Session of the merge pass
  job,       \* table job_runs and the position of the task body inside job_run
  rank,      \* table cohort_film_stats, the row order of a query and the computed rankings
  calc,      \* one application of a pure function: its arguments and its result
  store,     \* tables film_rankings and cohort_bucket_insights and the call that writes or reads them
  graph,     \* the follow graph, its expansion from the seed, and table cohort_members
  retry      \* ratings.py _execute_with_deadlock_retry: the attempts of one call

dbvars == <<dialect, films, users, ratings, tx, sess, clock, started, hist>>
others == <<scrape, batch, merge, job, rank>>
more == <<calc, store, graph, retry>>
vars == <<dialect, films, users, ratings, tx, sess, clock, started, hist,
          scrape, batch, merge, job, rank, calc, store, graph, retry>>

----------------------------------------------------------------------------
(* Rows and objects *)

FilmRow(id, slug, lid) == [id |-> id, slug |-> slug, lid |-> lid]
UserRow(name, full, incr) == [name |-> name, full |-> full, incr |-> incr]
RatingRow(user, film, rating, liked, favorite, upd) ==
  [user |-> user, film |-> film, rating |-> rating, liked |-> liked,
   favorite |-> favorite, updated_at |-> upd]

FilmRating(slug, lid, rating, liked, favorite) ==
  [slug |-> slug, lid |-> lid, rating |-> rating, liked |-> liked, favorite |-> favorite]
NoRec == FilmRating("", 0, 0, FALSE, FALSE)

FilmAttrs(slug, lid) == [slug |-> slug, lid |-> lid]
RatingAttrs(rating, liked, favorite, upd) ==
  [rating |-> rating, liked |-> liked, favorite |-> favorite, updated_at |-> upd]
UserAttrs(full, incr) == [full |-> full, incr |-> incr]

\* An object of the identity map: current attribute values and the values as loaded / last flushed.
Obj(cur, orig) == [in |-> TRUE, cur |-> cur, orig |-> orig]
NoFilmObj == [in |-> FALSE, cur |-> FilmAttrs("", 0), orig |-> FilmAttrs("", 0)]
NoRatingObj == [in |-> FALSE, cur |-> RatingAttrs(0, FALSE, FALSE, 0), orig |-> RatingAttrs(0, FALSE, FALSE, 0)]
NoUserObj == [in |-> FALSE, cur |-> UserAttrs(0, 0), orig |-> UserAttrs(0, 0)]

NoTx == [films |-> {}, users |-> {}, ratings |-> {}]

IdleSession ==
  [pc |-> "idle", user |-> "", rec |-> NoRec, fid |-> 0, how |-> "", n |-> 0,
   uobj |-> NoUserObj,
   fobjs |-> [i \in FilmIds |-> NoFilmObj],
   robjs |-> [i \in FilmIds |-> NoRatingObj],
   pending |-> <<>>,
   touched |-> {}, created |-> {}, dup |-> FALSE,
   tf |-> FALSE, ti |-> FALSE, fav |-> {"-"}, now |-> 0,
   result |-> "none", err |-> ""]

NoHist == [phase |-> 0, user |-> "", recs |-> <<>>, tf |-> FALSE, ti |-> FALSE, fav |-> {"-"},
           result |-> "none", films |-> {}, ratings |-> {}]

----------------------------------------------------------------------------
(* The database: what a statement of worker w sees, and what a write meets *)

FilmView(w) == tx[w].films \cup {r \in films : \A x \in tx[w].films : x.id # r.id}
UserView(w) == tx[w].users \cup {r \in users : \A x \in tx[w].users : x.name # r.name}
RatingView(w) ==
  tx[w].ratings \cup {r \in ratings : \A x \in tx[w].ratings : ~(x.user = r.user /\ x.film = r.film)}

OtherFilms(w) == UNION {tx[v].films : v \in Workers \ {w}}
OtherUsers(w) == UNION {tx[v].users : v \in Workers \ {w}}
OtherRatings(w) == UNION {tx[v].ratings : v \in Workers \ {w}}
AllTxFilms == UNION {tx[v].films : v \in Workers}

\* films.id of an inserted row: the smallest id no committed or uncommitted row holds.
NewFilmId ==
  LET used == {r.id : r \in films \cup AllTxFilms}
  IN CHOOSE i \in 1..(Cardinality(used) + 1) : i \notin used /\ \A j \in 1..(i - 1) : j \in used

\* FilmConflict with the unique flag of letterboxd_film_id left out.
FilmConflict_slug_only(row, r) ==
  r.id # row.id /\ r.slug = row.slug

\* models.py:47 and :49: slug is unique, letterboxd_film_id is unique where not NULL.
FilmConflict(row, r) ==
  r.id # row.id /\ (r.slug = row.slug \/ (row.lid # 0 /\ r.lid = row.lid))

\* Outcome of writing film row `row` when the writer sees `view` and other open
\* transactions hold the uncommitted rows `oth`.
FilmWriteStatus(row, view, oth) ==
  LET locked == {x.id : x \in oth}
      stable == {r \in view : r.id \notin locked}
      unsure == oth \cup {r \in films : r.id \in locked}
  IN IF \E r \in stable : FilmConflict(row, r) THEN "violation"
     ELSE IF row.id \in locked \/ (\E r \in unsure : FilmConflict(row, r)) THEN "blocked"
     ELSE "ok"

HasRating(S, u, f) == \E r \in S : r.user = u /\ r.film = f
TheRating(S, u, f) == CHOOSE r \in S : r.user = u /\ r.film = f
HasFilm(S, id) == \E r \in S : r.id = id
TheFilm(S, id) == CHOOSE r \in S : r.id = id
HasUser(S, name) == \E r \in S : r.name = name
TheUser(S, name) == CHOOSE r \in S : r.name = name

Put(S, row, Same(_, _)) == {r \in S : ~Same(r, row)} \cup {row}
SameFilm(r, x) == r.id = x.id
SameUser(r, x) == r.name = x.name
SameRating(r, x) == r.user = x.user /\ r.film = x.film

----------------------------------------------------------------------------
(* services/ratings.py: pure helpers *)

\* _find_film with the two lookups in the other order.
_find_film_slug_first(view, slug, letterboxd_id) ==
  LET byId == {r \in view : r.lid = letterboxd_id}
      bySlug == {r \in view : r.slug = slug}
  IN IF slug # "" /\ bySlug # {} THEN [id |-> (CHOOSE r \in bySlug : TRUE).id, by |-> "slug"]
     ELSE IF letterboxd_id # 0 /\ byId # {} THEN [id |-> (CHOOSE r \in byId : TRUE).id, by |-> "id"]
     ELSE [id |-> 0, by |-> "none"]

\* _find_film: by external id first when one is given, then by slug.
\* Returns the id of the row and the branch that found it, id 0 when no row is found.
_find_film(view, slug, letterboxd_id) ==
  LET byId == {r \in view : r.lid = letterboxd_id}
      bySlug == {r \in view : r.slug = slug}
  IN IF letterboxd_id # 0 /\ byId # {} THEN [id |-> (CHOOSE r \in byId : TRUE).id, by |-> "id"]
     ELSE IF slug # "" /\ bySlug # {} THEN [id |-> (CHOOSE r \in bySlug : TRUE).id, by |-> "slug"]
     ELSE [id |-> 0, by |-> "none"]

\* _apply_film_metadata on the in-memory attributes of a film object.
_apply_film_metadata(film, slug, letterboxd_id) ==
  FilmAttrs(IF film.slug # slug THEN slug ELSE film.slug,
            IF letterboxd_id # 0 /\ film.lid = 0 THEN letterboxd_id ELSE film.lid)

----------------------------------------------------------------------------
(* Session.flush: UPDATEs of changed attributes, then INSERTs of pending objects *)

TxView(base, over, Same(_, _)) == over \cup {r \in base : \A x \in over : ~Same(x, r)}

FlushUser(w, s) ==
  IF ~s.uobj.in \/ s.uobj.cur = s.uobj.orig THEN [st |-> "ok", rows |-> tx[w].users]
  ELSE IF HasUser(OtherUsers(w), s.user) THEN [st |-> "blocked", rows |-> tx[w].users]
  ELSE IF ~HasUser(UserView(w), s.user) THEN [st |-> "stale", rows |-> tx[w].users]
  ELSE LET old == TheUser(UserView(w), s.user)
           new == UserRow(s.user,
                          IF s.uobj.cur.full # s.uobj.orig.full THEN s.uobj.cur.full ELSE old.full,
                          IF s.uobj.cur.incr # s.uobj.orig.incr THEN s.uobj.cur.incr ELSE old.incr)
       IN [st |-> "ok", rows |-> Put(tx[w].users, new, SameUser)]

RECURSIVE FlushFilms(_, _, _, _)
FlushFilms(w, s, txf, i) ==
  IF i > Cardinality(Slugs) THEN [st |-> "ok", rows |-> txf]
  ELSE LET o == s.fobjs[i]
           view == TxView(films, txf, SameFilm)
       IN IF ~o.in \/ o.cur = o.orig THEN FlushFilms(w, s, txf, i + 1)
          ELSE IF ~HasFilm(view, i) THEN [st |-> "stale", rows |-> txf]
          ELSE LET old == TheFilm(view, i)
                   new == FilmRow(i, IF o.cur.slug # o.orig.slug THEN o.cur.slug ELSE old.slug,
                                     IF o.cur.lid # o.orig.lid THEN o.cur.lid ELSE old.lid)
                   st == FilmWriteStatus(new, view, OtherFilms(w))
               IN IF st = "ok" THEN FlushFilms(w, s, Put(txf, new, SameFilm), i + 1)
                  ELSE [st |-> st, rows |-> txf]

\* The value written to ratings.updated_at by an UPDATE: the explicitly assigned
\* value when it changed, else the onupdate default (models.py:91-93).
UpdatedAtOnUpdate(o) ==
  IF o.cur.updated_at # o.orig.updated_at THEN o.cur.updated_at ELSE clock

RECURSIVE FlushRatingUpdates(_, _, _, _)
FlushRatingUpdates(w, s, txr, i) ==
  IF i > Cardinality(Slugs) THEN [st |-> "ok", rows |-> txr]
  ELSE LET o == s.robjs[i]
           view == TxView(ratings, txr, SameRating)
       IN IF ~o.in \/ o.cur = o.orig THEN FlushRatingUpdates(w, s, txr, i + 1)
          ELSE IF HasRating(OtherRatings(w), s.user, i) THEN [st |-> "blocked", rows |-> txr]
          ELSE IF ~HasRating(view, s.user, i) THEN [st |-> "stale", rows |-> txr]
          ELSE LET old == TheRating(view, s.user, i)
                   new == RatingRow(s.user, i,
                            IF o.cur.rating # o.orig.rating THEN o.cur.rating ELSE old.rating,
                            IF o.cur.liked # o.orig.liked THEN o.cur.liked ELSE old.liked,
                            IF o.cur.favorite # o.orig.favorite THEN o.cur.favorite ELSE old.favorite,
                            UpdatedAtOnUpdate(o))
               IN FlushRatingUpdates(w, s, Put(txr, new, SameRating), i + 1)

\* ratings primary key (user_id, film_id), models.py:83-88.
RatingInsertStatus(w, s, view, p) ==
  IF HasRating(view, s.user, p.film) THEN "violation"
  ELSE IF HasRating(OtherRatings(w), s.user, p.film) THEN "blocked"
  ELSE "ok"

RECURSIVE FlushRatingInserts(_, _, _, _)
FlushRatingInserts(w, s, txr, k) ==
  IF k > Len(s.pending) THEN [st |-> "ok", rows |-> txr]
  ELSE LET p == s.pending[k]
           view == TxView(ratings, txr, SameRating)
           st == RatingInsertStatus(w, s, view, p)
       IN IF st = "ok"
          THEN FlushRatingInserts(w, s,
                 txr \cup {RatingRow(s.user, p.film, p.rating, p.liked, p.favorite, clock)}, k + 1)
          ELSE [st |-> st, rows |-> txr]

\* The session after a successful flush: nothing is dirty, pending objects are persistent.
Flushed(s) ==
  LET pend(i) == {k \in 1..Len(s.pending) : s.pending[k].film = i}
      ins(i) == s.pending[CHOOSE k \in pend(i) : TRUE]
      ratt(i) == RatingAttrs(ins(i).rating, ins(i).liked, ins(i).favorite, clock)
      upd(o) == [o.cur EXCEPT !.updated_at = UpdatedAtOnUpdate(o)]
  IN [s EXCEPT
        !.uobj = IF s.uobj.in THEN Obj(s.uobj.cur, s.uobj.cur) ELSE s.uobj,
        !.fobjs = [i \in FilmIds |-> IF s.fobjs[i].in THEN Obj(s.fobjs[i].cur, s.fobjs[i].cur)
                                     ELSE s.fobjs[i]],
        !.robjs = [i \in FilmIds |->
                     IF s.robjs[i].in
                     THEN (IF s.robjs[i].cur = s.robjs[i].orig THEN s.robjs[i]
                           ELSE Obj(upd(s.robjs[i]), upd(s.robjs[i])))
                     ELSE IF pend(i) # {} THEN Obj(ratt(i), ratt(i))
                     ELSE s.robjs[i]],
        !.pending = <<>>]

\* Session.flush of session s of worker w: status, failing table, rows of the transaction, session.
Flush(w, s) ==
  LET u == FlushUser(w, s)
      f == FlushFilms(w, s, tx[w].films, 1)
      ru == FlushRatingUpdates(w, s, tx[w].ratings, 1)
      ri == FlushRatingInserts(w, s, ru.rows, 1)
  IN IF u.st # "ok" THEN [st |-> u.st, table |-> "users", tx |-> tx[w], s |-> s]
     ELSE IF f.st # "ok" THEN [st |-> f.st, table |-> "films", tx |-> tx[w], s |-> s]
     ELSE IF ru.st # "ok" THEN [st |-> ru.st, table |-> "ratings", tx |-> tx[w], s |-> s]
     ELSE IF ri.st # "ok" THEN [st |-> ri.st, table |-> "ratings", tx |-> tx[w], s |-> s]
     ELSE [st |-> "ok", table |-> "",
           tx |-> [films |-> f.rows, users |-> u.rows, ratings |-> ri.rows],
           s |-> Flushed(s)]

----------------------------------------------------------------------------
(* Scripted inputs.  hist.phase: 0 off; 1 recording the call of worker 1; 2 worker 1 *)
(* replays the recorded call; 3 replay done; 4 every worker is fed hist.recs.       *)

MayStart(w) == hist.phase \in {0, 4} \/ (hist.phase \in {1, 2} /\ w = 1)
UserChoices(U) == IF hist.phase = 2 THEN {hist.user} ELSE U
RecChoices(w, P) ==
  IF hist.phase \in {2, 4}
  THEN (IF sess[w].n < Len(hist.recs) THEN {hist.recs[sess[w].n + 1]} ELSE {})
  ELSE P
MayEnd(w) == hist.phase \in {2, 4} => sess[w].n = Len(hist.recs)
TouchChoices(T) == IF hist.phase = 2 THEN {<<hist.tf, hist.ti>>} ELSE T
FavChoices(F) == IF hist.phase = 2 THEN {hist.fav} ELSE F

\* hist after the batch of the recorded or replayed call has ended with `result`,
\* leaving the committed tables f and r.
HistClosed(h, result, f, r) ==
  IF h.phase = 1 THEN [h EXCEPT !.phase = 2, !.result = result, !.films = f, !.ratings = r]
  ELSE IF h.phase = 2 THEN [h EXCEPT !.phase = 3]
  ELSE h

----------------------------------------------------------------------------
(* db/session.py get_session around services/ratings.py upsert_ratings *)

\* What is left of a session once get_session has closed it.
Closed(s, result, err) ==
  [IdleSession EXCEPT !.user = s.user, !.created = s.created, !.dup = s.dup,
                      !.result = result, !.err = err]

\* get_session: an exception leaves the with-block, the session is rolled back and closed.
Raise(w, s, err) ==
  /\ tx' = [tx EXCEPT ![w] = NoTx]
  /\ sess' = [sess EXCEPT ![w] = Closed(s, "failed", err)]
  /\ hist' = IF w = 1 THEN HistClosed(hist, "failed", films, ratings) ELSE hist

\* Lines 87-91 without the test of payload.rating.
overwrite_unguarded(cur, rec, now) ==
  RatingAttrs(rec.rating, rec.liked, rec.favorite, now)

\* upsert_ratings lines 87-91 on the attributes of an existing rating object: rating
\* and updated_at only when the payload carries a rating, liked and favorite always.
overwrite(cur, rec, now) ==
  RatingAttrs(IF rec.rating # 0 THEN rec.rating ELSE cur.rating,
              rec.liked, rec.favorite,
              IF rec.rating # 0 THEN now ELSE cur.updated_at)

\* upsert_ratings lines 84-100 for the film object `fid` the record resolved to.
Upsert(w, s, fid, how, rec) ==
  LET fo == IF s.fobjs[fid].in THEN s.fobjs[fid]
            ELSE LET r == TheFilm(FilmView(w), fid)
                 IN Obj(FilmAttrs(r.slug, r.lid), FilmAttrs(r.slug, r.lid))
      fo2 == [fo EXCEPT !.cur = _apply_film_metadata(fo.cur, rec.slug, rec.lid)]
      \* session.get(models.Rating, ...): identity map first, then a SELECT
      ro == IF s.robjs[fid].in THEN s.robjs[fid]
            ELSE IF HasRating(RatingView(w), s.user, fid)
                 THEN LET r == TheRating(RatingView(w), s.user, fid)
                          a == RatingAttrs(r.rating, r.liked, r.favorite, r.updated_at)
                      IN Obj(a, a)
                 ELSE NoRatingObj
      ro2 == [ro EXCEPT !.cur = overwrite(ro.cur, rec, clock)]
  IN [s EXCEPT !.pc = "loop", !.rec = rec, !.fid = fid, !.how = how, !.n = s.n + 1,
               !.fobjs[fid] = fo2,
               !.touched = s.touched \cup {fid},
               !.dup = s.dup \/ fid \in s.touched,
               !.robjs[fid] = IF ro.in THEN ro2 ELSE ro,
               !.pending = IF ro.in THEN s.pending
                           ELSE Append(s.pending, [film |-> fid, rating |-> rec.rating,
                                                   liked |-> rec.liked, favorite |-> rec.favorite])]

\* get_session opens a session and upsert_ratings is entered for a username, dt
\* ticks of the clock after the previous batch was started.
StartBatch(w, U, dt) ==
  /\ sess[w].pc = "idle"
  /\ started < MaxBatches
  /\ MayStart(w)
  /\ \E u \in UserChoices(U) :
       /\ sess' = [sess EXCEPT ![w] = [IdleSession EXCEPT !.pc = "user_select", !.user = u]]
       /\ hist' = IF hist.phase = 1 THEN [hist EXCEPT !.user = u] ELSE hist
  /\ clock' = clock + dt
  /\ started' = started + 1
  /\ UNCHANGED <<more, others, dialect, films, users, ratings, tx>>

\* get_or_create_user, cohorts.py:14-19: the SELECT by username.
UserSelect(w) ==
  /\ sess[w].pc = "user_select"
  /\ LET s == sess[w] IN
       IF HasUser(UserView(w), s.user)
       THEN LET r == TheUser(UserView(w), s.user)
            IN sess' = [sess EXCEPT ![w] = [s EXCEPT !.pc = "loop",
                          !.uobj = Obj(UserAttrs(r.full, r.incr), UserAttrs(r.full, r.incr))]]
       ELSE sess' = [sess EXCEPT ![w] = [s EXCEPT !.pc = "user_insert"]]
  /\ UNCHANGED <<more, others, dialect, films, users, ratings, tx, clock, started, hist>>

\* users.letterboxd_username is unique (models.py:33).
UserInsertStatus(w, name) ==
  IF HasUser(UserView(w), name) THEN "violation"
  ELSE IF HasUser(OtherUsers(w), name) THEN "blocked"
  ELSE "ok"

\* get_or_create_user, cohorts.py:20-23: session.add(user); session.flush().
UserInsert(w) ==
  /\ sess[w].pc = "user_insert"
  /\ LET s == sess[w]
         st == UserInsertStatus(w, s.user)
     IN /\ st # "blocked"
        /\ IF st = "ok"
           THEN /\ tx' = [tx EXCEPT ![w].users = @ \cup {UserRow(s.user, 0, 0)}]
                /\ sess' = [sess EXCEPT ![w] = [s EXCEPT !.pc = "loop",
                              !.uobj = Obj(UserAttrs(0, 0), UserAttrs(0, 0))]]
                /\ hist' = hist
           ELSE Raise(w, s, "IntegrityError:users")
  /\ UNCHANGED <<more, others, dialect, films, users, ratings, clock, started>>

\* upsert_ratings line 76-83: the next payload of the iterable, get_or_create_film lines 26-34.
NextRecord(w, P) ==
  /\ sess[w].pc = "loop"
  /\ (hist.phase = 4 \/ sess[w].n < MaxRecords)
  /\ \E rec \in RecChoices(w, P) :
       LET s == sess[w]
           found == _find_film(FilmView(w), rec.slug, rec.lid)
       IN /\ IF found.id # 0
             THEN sess' = [sess EXCEPT ![w] = Upsert(w, s, found.id, found.by, rec)]
             ELSE sess' = [sess EXCEPT ![w] = [s EXCEPT !.rec = rec, !.fid = 0, !.how = "",
                             !.pc = IF dialect = "postgresql" THEN "pg_insert" ELSE "sp_begin"]]
          /\ hist' = IF hist.phase = 1 THEN [hist EXCEPT !.recs = Append(@, rec)] ELSE hist
  /\ UNCHANGED <<more, others, dialect, films, users, ratings, tx, clock, started>>

\* A plain INSERT: a conflicting row raises.
on_conflict_raise(st) == st

\* pg_insert(...).on_conflict_do_nothing(): a conflicting row turns the INSERT into a no-op.
on_conflict_do_nothing(st) == IF st = "violation" THEN "skipped" ELSE st

\* _ensure_film_exists_postgres: the INSERT runs in bind.begin(), a transaction of
\* its own on another connection, committed when the with-block is left.
PgInsert(w) ==
  /\ sess[w].pc = "pg_insert"
  /\ LET s == sess[w]
         row == FilmRow(NewFilmId, s.rec.slug, s.rec.lid)
         st == on_conflict_do_nothing(FilmWriteStatus(row, films, AllTxFilms))
     IN /\ st # "blocked"
        /\ IF st = "ok"
           THEN /\ films' = films \cup {row}
                /\ sess' = [sess EXCEPT ![w] = [s EXCEPT !.pc = "pg_refind",
                                                         !.created = @ \cup {row.id}]]
                /\ UNCHANGED <<tx, hist>>
           ELSE IF st = "skipped"
           THEN /\ films' = films
                /\ sess' = [sess EXCEPT ![w] = [s EXCEPT !.pc = "pg_refind"]]
                /\ UNCHANGED <<tx, hist>>
           ELSE /\ films' = films
                /\ Raise(w, s, "IntegrityError:films")
  /\ UNCHANGED <<more, others, dialect, users, ratings, clock, started>>

\* get_or_create_film lines 43-54.
PgRefind(w) ==
  /\ sess[w].pc = "pg_refind"
  /\ LET s == sess[w]
         found == _find_film(FilmView(w), s.rec.slug, s.rec.lid)
     IN IF found.id # 0
        THEN /\ sess' = [sess EXCEPT ![w] =
                   Upsert(w, s, found.id, IF found.id \in s.created THEN "new" ELSE found.by, s.rec)]
             /\ UNCHANGED <<tx, hist>>
        ELSE Raise(w, s, "RuntimeError")
  /\ UNCHANGED <<more, others, dialect, films, users, ratings, clock, started>>

\* _create_film_with_savepoint line 248: session.begin_nested() flushes the session.
SpBegin(w) ==
  /\ sess[w].pc = "sp_begin"
  /\ LET s == sess[w]
         fl == Flush(w, s)
     IN /\ fl.st # "blocked"
        /\ IF fl.st = "ok"
           THEN /\ tx' = [tx EXCEPT ![w] = fl.tx]
                /\ sess' = [sess EXCEPT ![w] = [fl.s EXCEPT !.pc = "sp_insert"]]
                /\ hist' = hist
           ELSE Raise(w, s, IF fl.st = "stale" THEN "StaleDataError"
                            ELSE "IntegrityError:" \o fl.table)
  /\ UNCHANGED <<more, others, dialect, films, users, ratings, clock, started>>

\* _create_film_with_savepoint lines 249-261: the INSERT inside the savepoint; an
\* IntegrityError rolls the savepoint back and the film is looked up again.
SpInsert(w) ==
  /\ sess[w].pc = "sp_insert"
  /\ LET s == sess[w]
         row == FilmRow(NewFilmId, s.rec.slug, s.rec.lid)
         st == FilmWriteStatus(row, FilmView(w), OtherFilms(w))
         s1 == [s EXCEPT !.fobjs[row.id] = Obj(FilmAttrs(row.slug, row.lid), FilmAttrs(row.slug, row.lid)),
                         !.created = @ \cup {row.id}]
     IN /\ st # "blocked"
        /\ IF st = "ok"
           THEN /\ tx' = [tx EXCEPT ![w].films = @ \cup {row}]
                /\ sess' = [sess EXCEPT ![w] = Upsert(w, s1, row.id, "new", s.rec)]
           ELSE /\ tx' = tx
                /\ sess' = [sess EXCEPT ![w] = [s EXCEPT !.pc = "sp_refind"]]
  /\ UNCHANGED <<more, others, dialect, films, users, ratings, clock, started, hist>>

\* _create_film_with_savepoint lines 254-258.
SpRefind(w) ==
  /\ sess[w].pc = "sp_refind"
  /\ LET s == sess[w]
         found == _find_film(FilmView(w), s.rec.slug, s.rec.lid)
     IN IF found.id # 0
        THEN /\ sess' = [sess EXCEPT ![w] = Upsert(w, s, found.id, found.by, s.rec)]
             /\ UNCHANGED <<tx, hist>>
        ELSE Raise(w, s, "IntegrityError:films")
  /\ UNCHANGED <<more, others, dialect, films, users, ratings, clock, started>>

\* Lines 101-105 with both watermarks set as soon as one is requested.
touch_both(s, tf, ti) ==
  [s EXCEPT !.tf = tf, !.ti = ti, !.now = clock,
            !.uobj.cur = UserAttrs(IF tf \/ ti THEN clock ELSE s.uobj.cur.full,
                                   IF tf \/ ti THEN clock ELSE s.uobj.cur.incr)]

\* upsert_ratings lines 101-106: the iterable is exhausted, the requested
\* watermarks are set and the session is flushed.
touch(s, tf, ti) ==
  [s EXCEPT !.tf = tf, !.ti = ti, !.now = clock,
            !.uobj.cur = UserAttrs(IF tf THEN clock ELSE s.uobj.cur.full,
                                   IF ti THEN clock ELSE s.uobj.cur.incr)]

EndRecords(w, T, F) ==
  /\ sess[w].pc = "loop"
  /\ MayEnd(w)
  /\ \E t \in TouchChoices(T) : \E fav \in FavChoices(F) :
       LET s == touch(sess[w], t[1], t[2])
           fl == Flush(w, s)
       IN /\ fl.st # "blocked"
          /\ IF fl.st = "ok"
             THEN /\ tx' = [tx EXCEPT ![w] = fl.tx]
                  /\ sess' = [sess EXCEPT ![w] =
                       [fl.s EXCEPT !.fav = fav, !.pc = IF fav = {"-"} THEN "commit" ELSE "sync"]]
                  /\ hist' = IF hist.phase = 1
                             THEN [hist EXCEPT !.tf = t[1], !.ti = t[2], !.fav = fav] ELSE hist
             ELSE /\ Raise(w, s, IF fl.st = "stale" THEN "StaleDataError"
                                 ELSE "IntegrityError:" \o fl.table)
  /\ UNCHANGED <<more, others, dialect, films, users, ratings, clock, started>>

\* _sync_user_favorites selecting from the rows committed before the batch, as if it
\* ran without the flush of line 106.
_sync_user_favorites_unflushed(w, s, fav) ==
  LET sel == {r \in ratings :
                /\ r.user = s.user /\ r.favorite
                /\ (fav # {} => TheFilm(FilmView(w), r.film).slug \notin fav)}
      load(i) == IF s.robjs[i].in THEN s.robjs[i]
                 ELSE LET r == TheRating(RatingView(w), s.user, i)
                          a == RatingAttrs(r.rating, r.liked, r.favorite, r.updated_at)
                      IN Obj(a, a)
  IN [s EXCEPT !.robjs = [i \in FilmIds |->
        IF \E r \in sel : r.film = i THEN [load(i) EXCEPT !.cur.favorite = FALSE]
        ELSE s.robjs[i]]]

\* _sync_user_favorites: every stored favorite of the user whose film slug is not in
\* favorite_slugs (all of them when the set is empty) loses the flag.  fav = {"-"}
\* stands for favorite_slugs=None.
_sync_user_favorites(w, s, fav) ==
  LET sel == {r \in RatingView(w) :
                /\ r.user = s.user /\ r.favorite
                /\ (fav # {} => TheFilm(FilmView(w), r.film).slug \notin fav)}
      load(i) == IF s.robjs[i].in THEN s.robjs[i]
                 ELSE LET r == TheRating(RatingView(w), s.user, i)
                          a == RatingAttrs(r.rating, r.liked, r.favorite, r.updated_at)
                      IN Obj(a, a)
  IN [s EXCEPT !.robjs = [i \in FilmIds |->
        IF \E r \in sel : r.film = i THEN [load(i) EXCEPT !.cur.favorite = FALSE]
        ELSE s.robjs[i]]]

\* upsert_ratings lines 107-109, when favorite_slugs is not None.
SyncFavorites(w) ==
  /\ sess[w].pc = "sync"
  /\ sess' = [sess EXCEPT ![w] =
       [_sync_user_favorites(w, sess[w], sess[w].fav) EXCEPT !.pc = "commit"]]
  /\ hist' = hist
  /\ UNCHANGED <<more, others, dialect, films, users, ratings, tx, clock, started>>

\* get_session line 34: session.commit() flushes and commits the transaction.
Commit(w) ==
  /\ sess[w].pc = "commit"
  /\ LET s == sess[w]
         fl == Flush(w, s)
     IN /\ fl.st # "blocked"
        /\ IF fl.st = "ok"
           THEN /\ films' = TxView(films, fl.tx.films, SameFilm)
                /\ users' = TxView(users, fl.tx.users, SameUser)
                /\ ratings' = TxView(ratings, fl.tx.ratings, SameRating)
                /\ tx' = [tx EXCEPT ![w] = NoTx]
                /\ sess' = [sess EXCEPT ![w] = Closed(s, "ok", "")]
                /\ hist' = IF w = 1
                           THEN HistClosed(hist, "ok", TxView(films, fl.tx.films, SameFilm),
                                           TxView(ratings, fl.tx.ratings, SameRating))
                           ELSE hist
           ELSE /\ UNCHANGED <<films, users, ratings>>
                /\ Raise(w, s, IF fl.st = "stale" THEN "StaleDataError"
                               ELSE "IntegrityError:" \o fl.table)
  /\ UNCHANGED <<more, others, dialect, clock, started>>

----------------------------------------------------------------------------
(* services/enrichment.py enrich_film_metadata inside workflows.py enrich_films *)

PageDetails == [slug : Slugs, letterboxd_film_id : {0} \cup Lids]

\* enrich_film_metadata lines 53-56 on the attributes of the film object.
apply_page_details(film, page_details) ==
  FilmAttrs(IF page_details.slug # "" /\ film.slug # page_details.slug
            THEN page_details.slug ELSE film.slug,
            IF page_details.letterboxd_film_id # 0 /\ film.lid # page_details.letterboxd_film_id
            THEN page_details.letterboxd_film_id ELSE film.lid)

\* enrich_films for one film id: the film is loaded in a session of its own, the page
\* details are applied and get_session commits (a violated unique key rolls back).
EnrichFilm ==
  \E r \in films : \E pd \in PageDetails :
    LET a == apply_page_details(FilmAttrs(r.slug, r.lid), pd)
        new == FilmRow(r.id, a.slug, a.lid)
        st == FilmWriteStatus(new, films, AllTxFilms)
    IN /\ new # r
       /\ st # "blocked"
       /\ films' = IF st = "ok" THEN Put(films, new, SameFilm) ELSE films
       /\ UNCHANGED <<more, others, dialect, users, ratings, tx, sess, clock, started, hist>>

----------------------------------------------------------------------------
(* Specification of concurrent ingestion and enrichment *)

(* scrapers/ratings.py ProfileRatingsScraper and workflows.py scrape_user_ratings *)

MaxStream == 3

\* What the profile pages of one user show upstream: the favourites of the profile
\* page, the rated films newest first, the liked films that carry no rating.
NoUpstream == [favs |-> <<>>, rated |-> <<>>, liked |-> <<>>]
RatedTiles == [slug : Slugs, rating : {1, 2}]
SeqsUpTo(S, n) == UNION {[1..k -> S] : k \in 0..n}
Upstreams ==
  [favs : {<<>>, <<"a">>}, rated : SeqsUpTo(RatedTiles, MaxStream), liked : {<<>>, <<"b">>}]

Range(q) == {q[k] : k \in 1..Len(q)}
SlugsOf(q) == {q[k].slug : k \in 1..Len(q)}

\* One entry per favourite of the profile page, marked favourite.
fetch_profile_favorites(up) ==
  [k \in 1..Len(up.favs) |-> FilmRating(up.favs[k], 0, 0, FALSE, TRUE)]

\* The rated tiles in page order; a tile without a rating is never yielded.
fetch_user_ratings(up, favorite_slugs) ==
  [k \in 1..Len(up.rated) |->
     FilmRating(up.rated[k].slug, 0, up.rated[k].rating, FALSE, up.rated[k].slug \in favorite_slugs)]

\* The liked films without a rating in page order: rating None, liked True.
fetch_user_liked_films(up, favorite_slugs) ==
  [k \in 1..Len(up.liked) |->
     FilmRating(up.liked[k], 0, 0, TRUE, up.liked[k] \in favorite_slugs)]

\* The slug -> rating map of the rows ratings JOIN films JOIN users of one username.
get_user_rating_snapshot(F, R, username) ==
  LET rated == {f \in F : HasRating(R, username, f.id)}
  IN [sl \in {f.slug : f \in rated} |->
        LET f == CHOOSE x \in rated : x.slug = sl IN TheRating(R, username, f.id).rating]

\* rating_matches_snapshot comparing the slug only.
rating_matches_snapshot_slug_only(snapshot, payload) ==
  payload.slug \in DOMAIN snapshot

\* rating_matches_snapshot taking a stored None for a match of any payload.
rating_matches_snapshot_none_matches(snapshot, payload) ==
  IF DOMAIN snapshot = {} THEN FALSE
  ELSE IF payload.slug \notin DOMAIN snapshot THEN FALSE
  ELSE snapshot[payload.slug] = 0 \/ snapshot[payload.slug] = payload.rating

rating_matches_snapshot(snapshot, payload) ==
  IF DOMAIN snapshot = {} THEN FALSE
  ELSE IF payload.slug \notin DOMAIN snapshot THEN FALSE
  ELSE LET stored == snapshot[payload.slug]
       IN IF stored = 0 /\ payload.rating = 0 THEN TRUE
          ELSE IF stored = 0 \/ payload.rating = 0 THEN FALSE
          ELSE stored = payload.rating

NoScrape ==
  [pc |-> "idle", user |-> "", incremental |-> FALSE, up |-> NoUpstream,
   snapshot |-> <<>>, profile_favorites |-> <<>>, i |-> 0, j |-> 0,
   ratings |-> <<>>, likes |-> <<>>, combined |-> <<>>, result |-> "none"]

favorite_profile_slugs(sc) == SlugsOf(sc.profile_favorites)

\* Lines 91-92: the snapshot is read in a session of its own, whatever `incremental` is.
ScrapeBegin(U) ==
  /\ scrape.pc = "idle"
  /\ sess[1].pc = "idle" /\ sess[1].result = "none"
  /\ \E u \in U : \E inc \in BOOLEAN : \E up \in Upstreams :
       scrape' = [NoScrape EXCEPT !.pc = "favorites", !.user = u, !.incremental = inc,
                    !.up = up, !.snapshot = get_user_rating_snapshot(films, ratings, u)]
  /\ UNCHANGED <<more, dbvars, batch, merge, job, rank>>

\* Line 99.
ScrapeFavorites ==
  /\ scrape.pc = "favorites"
  /\ scrape' = [scrape EXCEPT !.pc = "ratings",
                              !.profile_favorites = fetch_profile_favorites(scrape.up)]
  /\ UNCHANGED <<more, dbvars, batch, merge, job, rank>>

\* Lines 103-106: one turn of the loop over the rating stream, or its end.
ScrapeRating ==
  /\ scrape.pc = "ratings"
  /\ LET stream == fetch_user_ratings(scrape.up, favorite_profile_slugs(scrape))
     IN IF scrape.i < Len(stream)
        THEN LET payload == stream[scrape.i + 1]
             IN IF rating_matches_snapshot(scrape.snapshot, payload)
                THEN scrape' = [scrape EXCEPT !.pc = "likes"]
                ELSE scrape' = [scrape EXCEPT !.i = @ + 1, !.ratings = Append(@, payload)]
        ELSE scrape' = [scrape EXCEPT !.pc = "likes"]
  /\ UNCHANGED <<more, dbvars, batch, merge, job, rank>>

\* Lines 107-113: one turn of the loop over the liked films, or its end.
ScrapeLike ==
  /\ scrape.pc = "likes"
  /\ LET stream == fetch_user_liked_films(scrape.up, favorite_profile_slugs(scrape))
         rated_slugs == SlugsOf(scrape.ratings)
     IN IF scrape.j < Len(stream)
        THEN LET payload == stream[scrape.j + 1]
             IN IF payload.slug \in rated_slugs
                THEN scrape' = [scrape EXCEPT !.j = @ + 1]
                ELSE IF rating_matches_snapshot(scrape.snapshot, payload)
                THEN scrape' = [scrape EXCEPT !.pc = "combine"]
                ELSE scrape' = [scrape EXCEPT !.j = @ + 1, !.likes = Append(@, payload)]
        ELSE scrape' = [scrape EXCEPT !.pc = "combine"]
  /\ UNCHANGED <<more, dbvars, batch, merge, job, rank>>

\* A request of the scraper fails: the exception leaves scrape_user_ratings.
ScrapeFail ==
  /\ scrape.pc \in {"favorites", "ratings", "likes"}
  /\ scrape' = [scrape EXCEPT !.pc = "done", !.result = "raised"]
  /\ UNCHANGED <<more, dbvars, batch, merge, job, rank>>

\* Lines 119-124: the favourites of the profile whose slug the batch does not hold yet.
RECURSIVE append_favorites(_, _)
append_favorites(combined, favorites) ==
  IF favorites = <<>> THEN combined
  ELSE LET favorite_entry == Head(favorites)
       IN IF favorite_entry.slug \in SlugsOf(combined)
          THEN append_favorites(combined, Tail(favorites))
          ELSE append_favorites(Append(combined, favorite_entry), Tail(favorites))

\* Lines 116-124, and the batch is handed to upsert_ratings (lines 127-135).
ScrapeCombine ==
  /\ scrape.pc = "combine"
  /\ LET rated_slugs == SlugsOf(scrape.ratings)
         InRated(item) == item.slug \notin rated_slugs
         likes_only == SelectSeq(scrape.likes, InRated)
         combined == append_favorites(scrape.ratings \o likes_only, scrape.profile_favorites)
     IN /\ scrape' = [scrape EXCEPT !.pc = "persist", !.combined = combined]
        /\ hist' = [hist EXCEPT !.recs = combined]
  /\ UNCHANGED <<more, dialect, films, users, ratings, tx, sess, clock, started, batch, merge, job, rank>>

\* upsert_ratings has returned or raised out of get_session: scrape_user_ratings ends.
ScrapeReturn ==
  /\ scrape.pc = "persist"
  /\ sess[1].pc = "idle" /\ sess[1].result # "none"
  /\ scrape' = [scrape EXCEPT !.pc = "done",
                              !.result = IF sess[1].result = "ok" THEN "returned" ELSE "raised"]
  /\ UNCHANGED <<more, dbvars, batch, merge, job, rank>>

----------------------------------------------------------------------------
(* cli.py cleanup_dedupe_films: the merge pass in one Session (autoflush=False).   *)
(* Every query of the pass reads the rows as stored before the pass: nothing is    *)
(* flushed before line 1338.  The Session holds, per loaded object, the attributes *)
(* assigned (moved: Rating.film_id, renamed: Film.slug) and the objects marked     *)
(* deleted (delr, delf).                                                           *)

RatingKey(r) == [user |-> r.user, film |-> r.film]

NoMerge ==
  [pc |-> "idle", pairs |-> <<>>, films0 |-> {}, ratings0 |-> {},
   moved |-> {}, renamed |-> {}, delr |-> {}, delf |-> {}, calls |-> <<>>, result |-> "none"]

\* models.py:68, Film.ratings with cascade="all, delete-orphan": session.delete(film)
\* loads the collection (SELECT ... WHERE film_id = :id) and marks each member deleted.
cascade_delete(R, film) == {RatingKey(r) : r \in {x \in R : x.film = film}}

\* cli.py:1274-1292 on the Session state m.
_merge_into(m, primary, duplicate) ==
  IF primary = duplicate THEN m
  ELSE LET dup_ratings == {r \in ratings : r.film = duplicate}
           existing(r) == HasRating(ratings, r.user, primary)
           dropped == {RatingKey(r) : r \in {x \in dup_ratings : existing(x)}}
           carried == {r \in dup_ratings : ~existing(r)}
       IN [m EXCEPT
             !.delr = @ \cup dropped \cup cascade_delete(ratings, duplicate),
             !.moved = {x \in @ : \A r \in carried : RatingKey(r) # [user |-> x.user, film |-> x.film]}
                       \cup {[user |-> r.user, film |-> r.film, to |-> primary] : r \in carried},
             !.delf = @ \cup {duplicate},
             !.calls = Append(@, <<primary, duplicate>>)]

\* films[0] of a query ordered by Film.id is primary, every other row is merged into it.
RECURSIVE merge_group(_, _, _)
merge_group(m, primary, dups) ==
  IF dups = {} THEN m
  ELSE LET d == CHOOSE x \in dups : \A y \in dups : x <= y
       IN merge_group(_merge_into(m, primary, d), primary, dups \ {d})

LowestId(S) == CHOOSE x \in S : \A y \in S : x <= y

RECURSIVE merge_groups(_, _)
merge_groups(m, groups) ==
  IF groups = {} THEN m
  ELSE LET g == CHOOSE x \in groups : \A y \in groups : LowestId(x) <= LowestId(y)
       IN merge_groups(merge_group(m, LowestId(g), g \ {LowestId(g)}), groups \ {g})

\* Lines 1253-1270: the slugs a log names; without a log nothing is filtered.
slug_filter(pairs) == UNION {{pairs[k][1], pairs[k][2]} : k \in 1..Len(pairs)}

MergeDBs ==
  LET F1 == {FilmRow(1, "a", 1), FilmRow(2, "b", 1)}
      F2 == {FilmRow(1, "a", 0), FilmRow(2, "a", 0)}
      F3 == {FilmRow(1, "a", 1), FilmRow(2, "b", 1), FilmRow(3, "c", 1)}
      F4 == {FilmRow(1, "a", 0), FilmRow(2, "b", 0)}
      Rows(F) == {RatingRow(u, f.id, f.id, FALSE, FALSE, 1) : u \in Usernames, f \in F}
  IN UNION {{[films |-> F, ratings |-> R] : R \in SUBSET Rows(F)} : F \in {F1, F2, F3, F4}}

LoggedPairs == {<<>>, <<<<"b", "a">>>>, <<<<"a", "b">>>>, <<<<"b", "d">>>>}

\* Lines 1236-1272: the command starts; the log, if any, names (original, canonical) slugs.
MergeBegin ==
  /\ merge.pc = "idle" /\ merge.result = "none"
  /\ \E pairs \in LoggedPairs :
       merge' = [NoMerge EXCEPT !.pc = "pairs", !.pairs = pairs,
                                !.films0 = films, !.ratings0 = ratings]
  /\ UNCHANGED <<more, dbvars, scrape, batch, job, rank>>

\* Lines 1296-1307: the logged pairs.  one_or_none raises when two rows hold the slug.
MergeLoggedPairs ==
  /\ merge.pc = "pairs"
  /\ IF merge.pairs = <<>> THEN merge' = [merge EXCEPT !.pc = "slugs"]
     ELSE LET orig == merge.pairs[1][1]
              canonical == merge.pairs[1][2]
              D == {f \in films : f.slug = orig}
              P == {f \in films : f.slug = canonical}
          IN IF Cardinality(D) > 1 \/ Cardinality(P) > 1
             THEN merge' = [merge EXCEPT !.pc = "done", !.result = "failed"]
             ELSE IF D # {} /\ P # {}
             THEN merge' = [_merge_into(merge, (CHOOSE f \in P : TRUE).id, (CHOOSE f \in D : TRUE).id)
                              EXCEPT !.pc = "slugs"]
             ELSE IF D # {}
             THEN merge' = [merge EXCEPT !.pc = "slugs",
                              !.renamed = @ \cup {[id |-> (CHOOSE f \in D : TRUE).id, slug |-> canonical]}]
             ELSE merge' = [merge EXCEPT !.pc = "slugs"]
  /\ UNCHANGED <<more, dbvars, scrape, batch, job, rank>>

\* Lines 1309-1323: the rows that share a slug.
MergeSlugConflicts ==
  /\ merge.pc = "slugs"
  /\ LET filter == slug_filter(merge.pairs)
         conflicts == {sl \in {f.slug : f \in films} :
                         /\ Cardinality({f \in films : f.slug = sl}) > 1
                         /\ (filter # {} => sl \in filter)}
         groups == {{f.id : f \in {x \in films : x.slug = sl}} : sl \in conflicts}
     IN merge' = [merge_groups(merge, groups) EXCEPT !.pc = "ids"]
  /\ UNCHANGED <<more, dbvars, scrape, batch, job, rank>>

\* Lines 1325-1340: the rows that share a letterboxd_film_id.
MergeIdConflicts ==
  /\ merge.pc = "ids"
  /\ LET filter == slug_filter(merge.pairs)
         conflicts == {l \in {f.lid : f \in films} \ {0} :
                         /\ Cardinality({f \in films : f.lid = l}) > 1
                         /\ (filter # {} => \E f \in films : f.lid = l /\ f.slug \in filter)}
         groups == {{f.id : f \in {x \in films : x.lid = l}} : l \in conflicts}
     IN merge' = [merge_groups(merge, groups) EXCEPT !.pc = "flush"]
  /\ UNCHANGED <<more, dbvars, scrape, batch, job, rank>>

\* Line 1341 and get_session: the flush writes the UPDATEs of the objects not marked
\* deleted, then the DELETEs, and commits; a violated ratings_user_film_key raises and
\* the pass is rolled back (lines 1342-1343).
MergeFlush ==
  /\ merge.pc = "flush"
  /\ LET deleted(r) == RatingKey(r) \in merge.delr
         To(r) == IF \E x \in merge.moved : x.user = r.user /\ x.film = r.film
                  THEN (CHOOSE x \in merge.moved : x.user = r.user /\ x.film = r.film).to
                  ELSE r.film
         kept == {r \in ratings : ~deleted(r)}
         updated == {[r EXCEPT !.film = To(r)] : r \in kept}
         clash == \E r, q \in kept : r # q /\ r.user = q.user /\ To(r) = To(q)
         Slug(f) == IF \E x \in merge.renamed : x.id = f.id
                    THEN (CHOOSE x \in merge.renamed : x.id = f.id).slug ELSE f.slug
         left == {[f EXCEPT !.slug = Slug(f)] : f \in {x \in films : x.id \notin merge.delf}}
     IN IF clash
        THEN /\ merge' = [merge EXCEPT !.pc = "done", !.result = "failed"]
             /\ UNCHANGED <<films, ratings>>
        ELSE /\ merge' = [merge EXCEPT !.pc = "done", !.result = "ok"]
             /\ films' = left
             /\ ratings' = {r \in updated : r.film \notin merge.delf}
  /\ UNCHANGED <<more, dialect, users, tx, sess, clock, started, hist, scrape, batch, job, rank>>

----------------------------------------------------------------------------
(* pipeline/jobs.py job_run around the task bodies of pipeline/tasks.py.  A stage is *)
(* one workflow call of the body; its get_session blocks commit before it returns.   *)

MaxJobs == 2

JobRow(id, name, status, last_error, finished) ==
  [id |-> id, job_name |-> name, status |-> status, last_error |-> last_error, finished |-> finished]

\* The workflow calls of a task body, in the order of the source.
StagesOf(name) ==
  IF name = "cohort_pipeline"
  THEN <<"refresh_cohort_membership", "scrape_cohort_members", "refresh_stats",
         "compute_rankings", "compute_bucket_insights", "enrich_films">>
  ELSE <<"enrich_films">>

JobNames == {"cohort_pipeline", "enrich_films"}

NoJob ==
  [pc |-> "idle", runs |-> {}, run_id |-> 0, name |-> "", stage |-> 0, entered |-> FALSE,
   committed |-> <<>>, exit |-> "none", error |-> "", finals |-> 0, reraised |-> FALSE]

TheRun(j) == CHOOSE r \in j.runs : r.id = j.run_id

\* _create_job_run, jobs.py:31-50: the row is inserted as 'running' and committed;
\* the body of the with-block starts.
JobCreate ==
  /\ job.pc \in {"idle", "done"}
  /\ Cardinality(job.runs) < MaxJobs
  /\ \E name \in JobNames :
       LET id == Cardinality(job.runs) + 1
       IN job' = [NoJob EXCEPT !.pc = "body", !.runs = job.runs \cup {JobRow(id, name, "running", "", FALSE)},
                               !.run_id = id, !.name = name, !.stage = 1]
  /\ UNCHANGED <<more, dbvars, scrape, batch, merge, rank>>

\* The next workflow call of the body is entered.
StageEnter ==
  /\ job.pc = "body" /\ ~job.entered
  /\ job.stage <= Len(StagesOf(job.name))
  /\ job' = [job EXCEPT !.entered = TRUE]
  /\ UNCHANGED <<more, dbvars, scrape, batch, merge, rank>>

\* The workflow call commits its session and returns.
StageCommit ==
  /\ job.pc = "body" /\ job.entered
  /\ job' = [job EXCEPT !.entered = FALSE, !.stage = @ + 1,
                        !.committed = Append(@, StagesOf(job.name)[job.stage])]
  /\ UNCHANGED <<more, dbvars, scrape, batch, merge, rank>>

\* A stage that raises is caught inside the body and the next stage is entered.
stage_raises_continue(j) ==
  [j EXCEPT !.entered = FALSE, !.stage = @ + 1]

\* The exception of a workflow call leaves the with-block: get_session has rolled the
\* stage's session back (session.py:35-37), no later statement of the body runs.
stage_raises(j) ==
  [j EXCEPT !.pc = "raised", !.entered = FALSE, !.exit = "Exception",
            !.error = StagesOf(j.name)[j.stage]]

StageRaise ==
  /\ job.pc = "body" /\ job.entered
  /\ job' = stage_raises(job)
  /\ UNCHANGED <<more, dbvars, scrape, batch, merge, rank>>

\* The body has run its last statement.
BodyReturn ==
  /\ job.pc = "body" /\ ~job.entered
  /\ job.stage > Len(StagesOf(job.name))
  /\ job' = [job EXCEPT !.pc = "returned", !.exit = "return"]
  /\ UNCHANGED <<more, dbvars, scrape, batch, merge, rank>>

\* The body is left by an exception that does not derive from Exception
\* (KeyboardInterrupt, SystemExit): `except Exception` of jobs.py:24 does not catch it
\* and the else clause is skipped.
BodyInterrupt ==
  /\ job.pc = "body"
  /\ job' = [job EXCEPT !.pc = "done", !.entered = FALSE, !.exit = "BaseException",
                        !.error = "KeyboardInterrupt", !.reraised = TRUE]
  /\ UNCHANGED <<more, dbvars, scrape, batch, merge, rank>>

\* _finalize_job_run, jobs.py:53-66.
_finalize_job_run(j, status, error) ==
  IF \E r \in j.runs : r.id = j.run_id
  THEN [j EXCEPT !.runs = (@ \ {TheRun(j)}) \cup {JobRow(j.run_id, j.name, status, error, TRUE)},
                 !.finals = @ + 1]
  ELSE j

\* jobs.py:24-26: except Exception, finalize as failed, raise.
JobFailed ==
  /\ job.pc = "raised"
  /\ job' = [_finalize_job_run(job, "failed", job.error) EXCEPT !.pc = "done", !.reraised = TRUE]
  /\ UNCHANGED <<more, dbvars, scrape, batch, merge, rank>>

\* jobs.py:27-28: else, finalize as succeeded.
JobSucceeded ==
  /\ job.pc = "returned"
  /\ job' = [_finalize_job_run(job, "succeeded", "") EXCEPT !.pc = "done"]
  /\ UNCHANGED <<more, dbvars, scrape, batch, merge, rank>>

----------------------------------------------------------------------------
(* Batches of per-user scrapes: the loops of workflows.py scrape_cohort_members and  *)
(* tasks.py scrape_user_batch, and the thread pool of the scrape command of cli.py.  *)
(* One call of scrape_user_ratings is a task that returns or raises.                 *)

BatchUsers == {"u1", "u2", "u3"}
BatchKinds == {"scrape_cohort_members", "scrape_user_batch", "scrape"}
Orders(S) == {q \in [1..Cardinality(S) -> S] : \A i, j \in 1..Cardinality(S) : q[i] = q[j] => i = j}
UserLists == UNION {Orders(S) : S \in SUBSET BatchUsers \ {{}}}

NoBatch ==
  [pc |-> "idle", kind |-> "", usernames |-> <<>>, k |-> 0, max_workers |-> 0,
   task |-> <<>>, collected |-> {}, processed |-> 0, status |-> "none"]

Running(b) == {i \in 1..Len(b.usernames) : b.task[i] = "running"}
Unfinished(b) == {i \in 1..Len(b.usernames) : b.task[i] \in {"queued", "running"}}

\* The usernames are selected; the scrape command submits every job to the executor
\* (cli.py:333-343), the two loops start with the first username.
BatchStart ==
  /\ batch.pc = "idle"
  /\ \E kind \in BatchKinds : \E usernames \in UserLists : \E mw \in {1, 2} :
       batch' = [NoBatch EXCEPT !.pc = IF kind = "scrape" THEN "pool" ELSE "loop",
                                !.kind = kind, !.usernames = usernames,
                                !.max_workers = IF kind = "scrape" THEN mw ELSE 1,
                                !.task = [i \in 1..Len(usernames) |-> "queued"],
                                !.status = "success"]
  /\ UNCHANGED <<more, dbvars, scrape, merge, job, rank>>

\* workflows.py:172-176 and tasks.py:123-138: scrape_user_ratings returns for the next
\* username of the loop and is accounted for.
LoopScrapeReturns ==
  /\ batch.pc = "loop" /\ batch.k < Len(batch.usernames)
  /\ batch' = [batch EXCEPT !.k = @ + 1, !.task[batch.k + 1] = "ok", !.processed = @ + 1]
  /\ UNCHANGED <<more, dbvars, scrape, merge, job, rank>>

\* scrape_user_ratings raises for the next username: no handler surrounds the call, the
\* exception leaves the loop and the function.
LoopScrapeRaises ==
  /\ batch.pc = "loop" /\ batch.k < Len(batch.usernames)
  /\ batch' = [batch EXCEPT !.task[batch.k + 1] = "failed", !.pc = "raised", !.status = "failed"]
  /\ UNCHANGED <<more, dbvars, scrape, merge, job, rank>>

\* workflows.py:177-184 and tasks.py:139: the summary is returned.
LoopReturn ==
  /\ batch.pc = "loop" /\ batch.k = Len(batch.usernames)
  /\ batch' = [batch EXCEPT !.pc = "returned"]
  /\ UNCHANGED <<more, dbvars, scrape, merge, job, rank>>

\* A worker thread of the pool takes a queued job; the pool also works off its queue
\* while the with-block of the executor is being left (shutdown waits, cancels nothing).
PoolRun(i) ==
  /\ batch.pc \in {"pool", "draining"}
  /\ i \in 1..Len(batch.usernames) /\ batch.task[i] = "queued"
  /\ Cardinality(Running(batch)) < batch.max_workers
  /\ batch' = [batch EXCEPT !.task[i] = "running"]
  /\ UNCHANGED <<more, dbvars, scrape, merge, job, rank>>

\* _scrape_user_ratings returns or raises in its thread; the future is completed.
PoolFinish(i) ==
  /\ batch.pc \in {"pool", "draining"}
  /\ i \in 1..Len(batch.usernames) /\ batch.task[i] = "running"
  /\ \E outcome \in {"ok", "failed"} : batch' = [batch EXCEPT !.task[i] = outcome]
  /\ UNCHANGED <<more, dbvars, scrape, merge, job, rank>>

\* cli.py:344-357: as_completed yields a completed future; future.result() returns and
\* is accounted for, or re-raises the exception of the job, which the handler records
\* and raises again.
PoolCollect(i) ==
  /\ batch.pc = "pool"
  /\ i \in 1..Len(batch.usernames) /\ i \notin batch.collected
  /\ batch.task[i] \in {"ok", "failed"}
  /\ IF batch.task[i] = "ok"
     THEN batch' = [batch EXCEPT !.collected = @ \cup {i}, !.processed = @ + 1]
     ELSE batch' = [batch EXCEPT !.collected = @ \cup {i}, !.status = "failed", !.pc = "draining"]
  /\ UNCHANGED <<more, dbvars, scrape, merge, job, rank>>

\* The executor has shut down; cli.py:358-361 re-raises and the command ends with the
\* exception after the scrape run is finalized as failed (lines 362-367).
PoolRaise ==
  /\ batch.pc = "draining" /\ Unfinished(batch) = {}
  /\ batch' = [batch EXCEPT !.pc = "raised"]
  /\ UNCHANGED <<more, dbvars, scrape, merge, job, rank>>

\* Every future was collected without an exception: the command prints its summary.
PoolReturn ==
  /\ batch.pc = "pool" /\ batch.collected = 1..Len(batch.usernames)
  /\ batch' = [batch EXCEPT !.pc = "returned"]
  /\ UNCHANGED <<more, dbvars, scrape, merge, job, rank>>

----------------------------------------------------------------------------
(* Rankings: services/rankings.py compute_bayesian and compute_cohort_affinity over    *)
(* the rows of cohort_film_stats of one cohort. Ratings are kept in tenths of a star,  *)
(* a bayesian score as the exact fraction num/den of tenths. The blend of z-scores of  *)
(* compute_cohort_affinity (lines 138-145) is a value the statistics of the cohort     *)
(* determine; it is kept with the row as the attribute blend.                          *)

RankFilms == {1, 2, 3}
Stats == [watchers : {1, 10}, avg_rating : {20, 40}, blend : {0, 1}]
StatRow(f, st) ==
  [film_id |-> f, watchers |-> st.watchers, avg_rating |-> st.avg_rating, blend |-> st.blend]
Snapshots ==
  UNION {{{StatRow(f, g[f]) : f \in F} : g \in [F -> Stats]} : F \in SUBSET RankFilms \ {{}}}
MValues == {5, 50}
WatchersFloors == {0, 10}

NoRank ==
  [pc |-> "idle", strategy |-> "", stats |-> {}, m_value |-> 0, watchers_floor |-> 0,
   rows |-> <<>>, results |-> <<>>, first |-> <<>>, runs |-> 0]

RECURSIVE SumRatings(_)
SumRatings(S) ==
  IF S = {} THEN 0
  ELSE LET r == CHOOSE x \in S : TRUE IN r.avg_rating + SumRatings(S \ {r})

\* SELECT AVG(avg_rating) FROM cohort_film_stats WHERE cohort_id = :cohort_id
cohort_avg(S) == [num |-> SumRatings(S), den |-> Cardinality(S)]

bayesian_score_weights_swapped(row, S, m_value) ==
  LET c == cohort_avg(S)
  IN [num |-> m_value * row.avg_rating * c.den + row.watchers * c.num,
      den |-> (row.watchers + m_value) * c.den]

\* (watchers / (watchers + m)) * avg_rating + (m / (watchers + m)) * cohort_avg
bayesian_score(row, S, m_value) ==
  LET c == cohort_avg(S)
  IN [num |-> row.watchers * row.avg_rating * c.den + m_value * c.num,
      den |-> (row.watchers + m_value) * c.den]

RatLess(a, b) == a.num * b.den < b.num * a.den
RatEq(a, b) == a.num * b.den = b.num * a.den

Max(a, b) == IF a >= b THEN a ELSE b

affinity_key_le_score_only(a, b) == a.score >= b.score

\* key=lambda entry: (-entry[1], -entry[2].get("watchers", 0)): a's key is not above b's
affinity_key_le(a, b) ==
  \/ a.score > b.score
  \/ a.score = b.score /\ a.watchers >= b.watchers

\* One insertion of the stable sort: x goes behind every entry whose key is not above its own.
insert_sorted(s, x) ==
  LET p == Cardinality({i \in 1..Len(s) : affinity_key_le(s[i], x)})
  IN SubSeq(s, 1, p) \o <<x>> \o SubSeq(s, p + 1, Len(s))

RECURSIVE sorted_scored_rows(_)
sorted_scored_rows(s) ==
  IF s = <<>> THEN <<>>
  ELSE insert_sorted(sorted_scored_rows(SubSeq(s, 1, Len(s) - 1)), s[Len(s)])

\* for idx, row in enumerate(rows, start=1): RankingResult(film_id, score, rank=idx, metadata)
enumerate_results(ordered) ==
  [i \in 1..Len(ordered) |->
     [film_id |-> ordered[i].film_id, score |-> ordered[i].score, rank |-> i,
      watchers |-> ordered[i].watchers]]

\* A strategy is run on the aggregate rows of a cohort (workflows.py compute_rankings).
RankBegin ==
  /\ rank.pc = "idle"
  /\ \E S \in Snapshots :
       \/ \E m \in MValues :
            rank' = [NoRank EXCEPT !.pc = "query", !.strategy = "bayesian", !.stats = S, !.m_value = m]
       \/ \E fl \in WatchersFloors :
            rank' = [NoRank EXCEPT !.pc = "query", !.strategy = "cohort_affinity", !.stats = S,
                                   !.watchers_floor = fl]
  /\ UNCHANGED <<more, dbvars, scrape, batch, merge, job>>

\* rankings.py:37-55: the rows of the cohort with their scores, ORDER BY score DESC; rows
\* of equal score come in an order of the storage engine's choosing.
BayesianQuery ==
  /\ rank.pc = "query" /\ rank.strategy = "bayesian"
  /\ \E q \in Orders(rank.stats) :
       LET sc(i) == bayesian_score(q[i], rank.stats, rank.m_value)
       IN /\ \A i, j \in 1..Len(q) : i < j => ~RatLess(sc(i), sc(j))
          /\ rank' = [rank EXCEPT !.pc = "rows",
                        !.rows = [i \in 1..Len(q) |->
                                    [film_id |-> q[i].film_id, watchers |-> q[i].watchers,
                                     avg_rating |-> q[i].avg_rating, score |-> sc(i)]]]
  /\ UNCHANGED <<more, dbvars, scrape, batch, merge, job>>

\* rankings.py:56-66
BayesianResults ==
  /\ rank.pc = "rows" /\ rank.strategy = "bayesian"
  /\ rank' = [rank EXCEPT !.pc = "ranked", !.results = enumerate_results(rank.rows), !.runs = @ + 1]
  /\ UNCHANGED <<more, dbvars, scrape, batch, merge, job>>

\* rankings.py:77-102: the rows of the cohort with watchers >= max(1, watchers_floor); the
\* statement has no ORDER BY, the rows come in an order of the storage engine's choosing.
AffinityQuery ==
  /\ rank.pc = "query" /\ rank.strategy = "cohort_affinity"
  /\ \E q \in Orders({r \in rank.stats : r.watchers >= Max(1, rank.watchers_floor)}) :
       rank' = [rank EXCEPT !.pc = "rows", !.rows = q]
  /\ UNCHANGED <<more, dbvars, scrape, batch, merge, job>>

\* rankings.py:103-167: no rows, no results; else the rows are scored, sorted and ranked.
AffinityResults ==
  /\ rank.pc = "rows" /\ rank.strategy = "cohort_affinity"
  /\ LET scored_rows == [i \in 1..Len(rank.rows) |->
                           [film_id |-> rank.rows[i].film_id, score |-> rank.rows[i].blend,
                            watchers |-> rank.rows[i].watchers]]
         ordered == sorted_scored_rows(scored_rows)
     IN rank' = [rank EXCEPT !.pc = "ranked", !.runs = @ + 1,
                             !.results = IF rank.rows = <<>> THEN <<>> ELSE enumerate_results(ordered)]
  /\ UNCHANGED <<more, dbvars, scrape, batch, merge, job>>

\* The same strategy is run once more on the unchanged rows.
RankAgain ==
  /\ rank.pc = "ranked" /\ rank.runs = 1
  /\ rank' = [rank EXCEPT !.pc = "query", !.first = rank.results, !.rows = <<>>, !.results = <<>>]
  /\ UNCHANGED <<more, dbvars, scrape, batch, merge, job>>

----------------------------------------------------------------------------
(* Pure functions of services/rankings.py and services/insights.py, applied once to  *)
(* arguments drawn when the call starts. A bonus is kept in hundredths. The float     *)
(* quotients count / w are compared with their thresholds as exact fractions; for the *)
(* watcher counts drawn here (up to 10) the code's float comparisons give the same    *)
(* labels for every histogram.                                                        *)

NoCalc == [pc |-> "idle", fn |-> "", args |-> <<>>, out |-> <<>>]

Call(fn, args) == [pc |-> "called", fn |-> fn, args |-> args, out |-> <<>>]

WatcherCounts == {-1, 0, 5, 10}
Histograms ==
  {h \in [count_gte_4_5 : 0..10, count_4_0_4_5 : 0..10, count_3_5_4_0 : 0..10,
          count_3_0_3_5 : 0..10, count_2_5_3_0 : 0..10, count_lt_2_5 : 0..10] :
     h.count_gte_4_5 + h.count_4_0_4_5 + h.count_3_5_4_0
       + h.count_3_0_3_5 + h.count_2_5_3_0 + h.count_lt_2_5 <= 10}
ClassifyArgs ==
  {[watchers |-> w, counts |-> h] : w \in WatcherCounts, h \in Histograms}

classify_distribution_label_left_first(a) ==
  LET w == a.watchers
      pct_high_total == a.counts.count_gte_4_5 + a.counts.count_4_0_4_5
      pct_low_total == a.counts.count_2_5_3_0 + a.counts.count_lt_2_5
  IN IF w <= 0 THEN [label |-> "unknown", bonus |-> 0]
     ELSE IF 10 * pct_high_total >= 6 * w /\ 100 * pct_low_total <= 15 * w
       THEN [label |-> "left", bonus |-> 15]
     ELSE IF 10 * a.counts.count_gte_4_5 >= 4 * w /\ 10 * pct_low_total <= w
       THEN [label |-> "strong-left", bonus |-> 30]
     ELSE [label |-> "mixed", bonus |-> 0]

\* rankings.py:267-301; pct_x >= t is written count_x * den(t) >= num(t) * w
classify_distribution_label(a) ==
  LET w == a.watchers
      pct_extreme == a.counts.count_gte_4_5
      pct_mid_high == a.counts.count_3_5_4_0
      pct_mid_low == a.counts.count_3_0_3_5
      pct_high_total == a.counts.count_gte_4_5 + a.counts.count_4_0_4_5
      pct_low_total == a.counts.count_2_5_3_0 + a.counts.count_lt_2_5
  IN IF w <= 0 THEN [label |-> "unknown", bonus |-> 0]
     ELSE IF 10 * pct_extreme >= 4 * w /\ 10 * pct_low_total <= w
       THEN [label |-> "strong-left", bonus |-> 30]
     ELSE IF 10 * pct_high_total >= 6 * w /\ 100 * pct_low_total <= 15 * w
       THEN [label |-> "left", bonus |-> 15]
     ELSE IF 100 * pct_low_total >= 45 * w /\ 10 * pct_high_total <= 2 * w
       THEN [label |-> "right", bonus |-> -15]
     ELSE IF 100 * pct_low_total >= 35 * w /\ 100 * pct_high_total >= 25 * w
       THEN [label |-> "bimodal-low-high", bonus |-> 5]
     ELSE IF 100 * pct_mid_low >= 25 * w /\ 100 * pct_mid_high >= 25 * w
       THEN [label |-> "bimodal-mid", bonus |-> -5]
     ELSE IF 10 * (pct_mid_high + pct_mid_low) >= 6 * w /\ 10 * pct_low_total <= 2 * w
       THEN [label |-> "balanced", bonus |-> 0]
     ELSE [label |-> "mixed", bonus |-> 0]

\* The caller passes the six bucket counts of a row of cohort_film_stats (rankings.py:121-133).
ClassifyCall ==
  /\ calc.pc = "idle"
  /\ \E a \in ClassifyArgs : calc' = Call("classify_distribution_label", a)
  /\ UNCHANGED <<dbvars, others, store, graph, retry>>

ClassifyReturn ==
  /\ calc.pc = "called" /\ calc.fn = "classify_distribution_label"
  /\ calc' = [calc EXCEPT !.pc = "returned", !.out = classify_distribution_label(calc.args)]
  /\ UNCHANGED <<dbvars, others, store, graph, retry>>

----------------------------------------------------------------------------
(* Stored computations: tables film_rankings and ranking_insights, written by        *)
(* rankings.py persist_rankings and insights.py persist_insights inside the          *)
(* get_session block of workflows.py compute_rankings and compute_bucket_insights.   *)
(* A DELETE executed in the session and the objects added to it reach the table      *)
(* when get_session commits.                                                         *)

CohortIds == {1, 2}
Strategies == {"bayesian", "cohort_affinity"}
StoreFilms == {1, 2}

\* params of compute_rankings (workflows.py:243, 251-261) for a setting v
ParamsOf(strategy, v) ==
  IF strategy = "bayesian" THEN [m_value |-> v] ELSE [watchers_floor |-> v]

\* Results of a strategy: one RankingResult per film of its rows, ranked from 1.
ResultLists ==
  {[i \in 1..Len(q) |-> [film_id |-> q[i], score |-> 10 - i, rank |-> i]] :
     q \in UNION {Orders(F) : F \in SUBSET StoreFilms}}

\* models.FilmRanking(cohort_id, strategy, film_id, score, rank, params)
FilmRanking(cohort_id, strategy, result, params) ==
  [cohort_id |-> cohort_id, strategy |-> strategy, film_id |-> result.film_id,
   score |-> result.score, rank |-> result.rank, params |-> params]

RankingRows(cohort_id, strategy, results, params) ==
  {FilmRanking(cohort_id, strategy, results[i], params) : i \in 1..Len(results)}

StoreKeys == CohortIds \X Strategies

\* Tables left by earlier computations, one per (cohort, strategy), with the setting 5.
RankingTables ==
  {UNION {RankingRows(k[1], k[2], old[k], ParamsOf(k[2], 5)) : k \in StoreKeys} :
     old \in [StoreKeys -> ResultLists]}

NoStore ==
  [pc |-> "idle", fn |-> "", film_rankings |-> {}, ranking_insights |-> {},
   cohort_id |-> 0, strategy |-> "", timeframe_key |-> "", persist |-> FALSE,
   results |-> <<>>, params |-> <<>>, deleted |-> {}, new |-> {}, before |-> {},
   stats |-> <<>>, filters |-> <<>>, persisted |-> {}, out |-> <<>>]

\* The rows of a table the WHERE clause of the DELETE selects.
UnderKey(table, cohort_id, strategy) ==
  {r \in table : r.cohort_id = cohort_id /\ r.strategy = strategy}

\* workflows.py:239-262: the session is opened and the strategy computes its results.
ComputeRankings ==
  /\ store.pc = "idle"
  /\ \E c \in CohortIds : \E s \in Strategies : \E res \in ResultLists : \E v \in {5, 50} :
       store' = [store EXCEPT !.pc = "computed", !.fn = "compute_rankings",
                              !.cohort_id = c, !.strategy = s, !.results = res,
                              !.params = ParamsOf(s, v), !.before = store.film_rankings]
  /\ UNCHANGED <<dbvars, others, calc, graph, retry>>

\* workflows.py:263-264: a strategy other than the two raises ValueError before anything
\* is written; get_session rolls back.
ComputeRankingsUnsupported ==
  /\ store.pc = "idle"
  /\ \E c \in CohortIds :
       store' = [store EXCEPT !.pc = "raised", !.fn = "compute_rankings", !.cohort_id = c,
                              !.strategy = "unsupported", !.before = store.film_rankings]
  /\ UNCHANGED <<dbvars, others, calc, graph, retry>>

persist_rankings_delete_cohort(st) ==
  [st EXCEPT !.pc = "deleted",
             !.deleted = {r \in st.film_rankings : r.cohort_id = st.cohort_id}]

\* rankings.py:229-234: DELETE FROM film_rankings WHERE cohort_id = .. AND strategy = ..
persist_rankings_delete(st) ==
  [st EXCEPT !.pc = "deleted",
             !.deleted = UnderKey(st.film_rankings, st.cohort_id, st.strategy)]

PersistRankingsDelete ==
  /\ store.pc = "computed" /\ store.fn = "compute_rankings"
  /\ store' = persist_rankings_delete(store)
  /\ UNCHANGED <<dbvars, others, calc, graph, retry>>

\* rankings.py:235-245: one FilmRanking per result is added to the session.
PersistRankingsAdd ==
  /\ store.pc = "deleted" /\ store.fn = "compute_rankings"
  /\ store' = [store EXCEPT !.pc = "added",
                 !.new = RankingRows(store.cohort_id, store.strategy, store.results, store.params)]
  /\ UNCHANGED <<dbvars, others, calc, graph, retry>>

PrimaryKey(r) == <<r.cohort_id, r.strategy, r.film_id>>

\* session.py:34: commit flushes the added objects after the DELETE; an INSERT whose
\* primary key is still in the table raises and get_session rolls back (lines 35-37).
CommitRankings ==
  /\ store.pc = "added" /\ store.fn = "compute_rankings"
  /\ LET kept == store.film_rankings \ store.deleted
     IN IF \E r \in store.new : \E k \in kept : PrimaryKey(r) = PrimaryKey(k)
        THEN store' = [store EXCEPT !.pc = "raised", !.deleted = {}, !.new = {}]
        ELSE store' = [store EXCEPT !.pc = "committed", !.film_rankings = kept \cup store.new,
                                    !.deleted = {}, !.new = {},
                                    !.out = [computed_rows |-> Len(store.results)]]
  /\ UNCHANGED <<dbvars, others, calc, graph, retry>>

----------------------------------------------------------------------------
(* services/insights.py: percentiles. A percentile is kept as the exact fraction     *)
(* num/den of the float (avg_rank / n) * 100.0.                                      *)

MaxValues == 4
PercentileValues == {1, 2, 3}

insert_ascending(s, x) ==
  LET p == Cardinality({i \in 1..Len(s) : s[i] <= x})
  IN SubSeq(s, 1, p) \o <<x>> \o SubSeq(s, p + 1, Len(s))

\* sorted(values)
RECURSIVE sorted_vals(_)
sorted_vals(values) ==
  IF values = <<>> THEN <<>>
  ELSE insert_ascending(sorted_vals(SubSeq(values, 1, Len(values) - 1)), values[Len(values)])

Least(S) == CHOOSE x \in S : \A y \in S : x <= y
Greatest(S) == CHOOSE x \in S : \A y \in S : x >= y

\* first_seen.setdefault(value, idx) keeps the first index, last_seen[value] = idx the last
first_seen(sv, value) == Least({i \in 1..Len(sv) : sv[i] = value})
last_seen(sv, value) == Greatest({i \in 1..Len(sv) : sv[i] = value})

_percentile_lookup_last_rank(values) ==
  LET sv == sorted_vals(values)
  IN [value \in Range(values) |->
        [num |-> 100 * 2 * last_seen(sv, value), den |-> 2 * Len(sv)]]

\* insights.py:290-305: lookup[value] = ((start_idx + end_idx) / 2 / n) * 100.0
_percentile_lookup(values) ==
  LET sv == sorted_vals(values)
  IN [value \in Range(values) |->
        [num |-> 100 * (first_seen(sv, value) + last_seen(sv, value)), den |-> 2 * Len(sv)]]

\* insights.py:254-257: the lookup is built from the watcher counts or the average ratings
\* of the rows.
PercentileCall ==
  /\ calc.pc = "idle"
  /\ \E values \in SeqsUpTo(PercentileValues, MaxValues) \ {<<>>} :
       calc' = Call("_percentile_lookup", values)
  /\ UNCHANGED <<dbvars, others, store, graph, retry>>

PercentileReturn ==
  /\ calc.pc = "called" /\ calc.fn = "_percentile_lookup"
  /\ calc' = [calc EXCEPT !.pc = "returned", !.out = _percentile_lookup(calc.args)]
  /\ UNCHANGED <<dbvars, others, store, graph, retry>>

----------------------------------------------------------------------------
(* services/insights.py: _derive_insights. A z-score (value - mean) / std_dev is     *)
(* kept as the exact pair num, rad with z = num / sqrt(rad); thresholds on it are    *)
(* compared after squaring. slug and title of a film are not modelled.               *)

InsightFilms == {1, 2, 3}
StatValues == {0, 1, 2}

\* FilmStat rows as _row_to_stat builds them from cohort_film_stats (insights.py:215-230)
FilmStats ==
  UNION {{[i \in 1..Len(q) |-> [film_id |-> q[i], watchers |-> w[q[i]], avg_rating |-> r[q[i]]]] :
            w \in [F -> StatValues], r \in [F -> StatValues], q \in Orders(F)} :
         F \in SUBSET InsightFilms}

RECURSIVE SumSeq(_)
SumSeq(s) == IF s = <<>> THEN 0 ELSE s[Len(s)] + SumSeq(SubSeq(s, 1, Len(s) - 1))

Squares(s) == [i \in 1..Len(s) |-> s[i] * s[i]]

\* insights.py:258-261, 308-311: mean = sum / n, std_dev = sqrt(sum((v - mean)^2) / n),
\* z = 0.0 when std_dev is 0, else (value - mean) / std_dev
_zscore(value, values) ==
  LET n == Len(values)
      rad == n * SumSeq(Squares(values)) - SumSeq(values) * SumSeq(values)
  IN IF rad = 0 \/ n * value = SumSeq(values) THEN [num |-> 0, rad |-> 1]
     ELSE [num |-> n * value - SumSeq(values), rad |-> rad]

\* z >= a/4 and z <= a/4 and abs(z) <= a/4
ZGe(z, a) ==
  IF a >= 0 THEN z.num >= 0 /\ 16 * z.num * z.num >= a * a * z.rad
  ELSE z.num >= 0 \/ 16 * z.num * z.num <= a * a * z.rad
ZLe(z, a) == ZGe([num |-> -z.num, rad |-> z.rad], -a)
ZAbsLe(z, a) == 16 * z.num * z.num <= a * a * z.rad

PctGe(p, t) == p.num >= t * p.den
PctLt(p, t) == p.num < t * p.den
PctLe(p, t) == p.num <= t * p.den

\* insights.py:314-329
_bucket_label(watchers_pct, rating_pct) ==
  IF PctGe(watchers_pct, 90) /\ PctGe(rating_pct, 90) THEN "Elite acclaim"
  ELSE IF PctGe(rating_pct, 90) /\ PctLt(watchers_pct, 50) THEN "Cult favorite"
  ELSE IF PctGe(watchers_pct, 90) /\ PctGe(rating_pct, 40) /\ PctLe(rating_pct, 65) THEN "Crowd pleaser"
  ELSE IF PctGe(rating_pct, 80) /\ PctGe(watchers_pct, 60) THEN "Critical favorite"
  ELSE IF PctGe(rating_pct, 70) /\ PctLt(watchers_pct, 30) THEN "Hidden gem"
  ELSE IF PctGe(watchers_pct, 85) /\ PctLt(rating_pct, 40) THEN "Guilty pleasure"
  ELSE IF PctLt(rating_pct, 30) /\ PctLt(watchers_pct, 30) THEN "Skip it"
  ELSE "Steady performer"

\* insights.py:332-347
_cluster_label(watchers_z, rating_z) ==
  IF ZGe(rating_z, 4) /\ ZGe(watchers_z, 4) THEN "High rating / high watchers"
  ELSE IF ZGe(rating_z, 4) /\ ZLe(watchers_z, -1) THEN "High rating / low watchers"
  ELSE IF ZLe(rating_z, -4) /\ ZGe(watchers_z, 2) THEN "Low rating / high watchers"
  ELSE IF ZLe(rating_z, -4) /\ ZLe(watchers_z, -1) THEN "Low rating / low watchers"
  ELSE IF ZAbsLe(rating_z, 2) /\ ZGe(watchers_z, 3) THEN "High engagement / mixed sentiment"
  ELSE IF ZGe(rating_z, 2) /\ ZAbsLe(watchers_z, 2) THEN "Critical darling"
  ELSE IF ZLe(rating_z, -2) /\ ZAbsLe(watchers_z, 2) THEN "Divisive pick"
  ELSE "Middle of the pack"

\* The bucket labels in the order of Python's string comparison.
BucketLabels ==
  <<"Critical favorite", "Crowd pleaser", "Cult favorite", "Elite acclaim",
    "Guilty pleasure", "Hidden gem", "Skip it", "Steady performer">>
LabelPosition(label) == CHOOSE i \in 1..Len(BucketLabels) : BucketLabels[i] = label

PctEq(p, q) == p.num * q.den = q.num * p.den
PctGt(p, q) == p.num * q.den > q.num * p.den

insight_key_le_rating_only(a, b) ==
  \/ LabelPosition(a.bucket_label) < LabelPosition(b.bucket_label)
  \/ /\ a.bucket_label = b.bucket_label
     /\ ~PctGt(b.rating_percentile, a.rating_percentile)

\* key=lambda insight: (insight.bucket_label, -insight.rating_percentile,
\* -insight.watchers_percentile): a's key is not above b's
insight_key_le(a, b) ==
  \/ LabelPosition(a.bucket_label) < LabelPosition(b.bucket_label)
  \/ /\ a.bucket_label = b.bucket_label
     /\ \/ PctGt(a.rating_percentile, b.rating_percentile)
        \/ /\ PctEq(a.rating_percentile, b.rating_percentile)
           /\ ~PctGt(b.watchers_percentile, a.watchers_percentile)

insert_insight(s, x) ==
  LET p == Cardinality({i \in 1..Len(s) : insight_key_le(s[i], x)})
  IN SubSeq(s, 1, p) \o <<x>> \o SubSeq(s, p + 1, Len(s))

\* insights.sort(key=...) is stable
RECURSIVE sort_insights(_)
sort_insights(s) ==
  IF s = <<>> THEN <<>>
  ELSE insert_insight(sort_insights(SubSeq(s, 1, Len(s) - 1)), s[Len(s)])

\* [stat for stat in stats if stat.watchers > 0 and stat.avg_rating > 0]
RECURSIVE RatedRows(_)
RatedRows(stats) ==
  IF stats = <<>> THEN <<>>
  ELSE LET rest == RatedRows(SubSeq(stats, 1, Len(stats) - 1))
           stat == stats[Len(stats)]
       IN IF stat.watchers > 0 /\ stat.avg_rating > 0 THEN Append(rest, stat) ELSE rest

\* insights.py:250-287
_derive_insights(stats) ==
  LET rows == RatedRows(stats)
  IN IF rows = <<>> THEN <<>>
     ELSE LET watcher_values == [i \in 1..Len(rows) |-> rows[i].watchers]
              rating_values == [i \in 1..Len(rows) |-> rows[i].avg_rating]
              watcher_percentiles == _percentile_lookup(watcher_values)
              rating_percentiles == _percentile_lookup(rating_values)
              insight(stat) ==
                LET w_pct == watcher_percentiles[stat.watchers]
                    r_pct == rating_percentiles[stat.avg_rating]
                    w_z == _zscore(stat.watchers, watcher_values)
                    r_z == _zscore(stat.avg_rating, rating_values)
                IN [film_id |-> stat.film_id, watchers |-> stat.watchers,
                    avg_rating |-> stat.avg_rating,
                    watchers_percentile |-> w_pct, rating_percentile |-> r_pct,
                    watchers_zscore |-> w_z, rating_zscore |-> r_z,
                    bucket_label |-> _bucket_label(w_pct, r_pct),
                    cluster_label |-> _cluster_label(w_z, r_z)]
          IN sort_insights([i \in 1..Len(rows) |-> insight(rows[i])])

\* insights.py:115-118 with no filter set: every row of the cohort is a stat.
DeriveCall ==
  /\ calc.pc = "idle"
  /\ \E stats \in FilmStats : calc' = Call("_derive_insights", stats)
  /\ UNCHANGED <<dbvars, others, store, graph, retry>>

DeriveReturn ==
  /\ calc.pc = "called" /\ calc.fn = "_derive_insights"
  /\ calc' = [calc EXCEPT !.pc = "returned", !.out = _derive_insights(calc.args)]
  /\ UNCHANGED <<dbvars, others, store, graph, retry>>

----------------------------------------------------------------------------
(* services/insights.py: BucketFilters. An Optional value is the empty set (None) or *)
(* the set of its one value; a datetime is its date <<year, month, day>>.           *)

None == {}
Some(v) == {v}
Opt(S) == {None} \cup {Some(v) : v \in S}
The(x) == CHOOSE v \in x : TRUE

\* Python truth of an Optional[int]: None and 0 are false
Truthy(x) == x # None /\ The(x) # 0

\* Python truth of an Optional[datetime]: None is false
Present(x) == x # None

BucketFilters ==
  [release_start : Opt({0, 1990}), release_end : Opt({0, 1999}), watched_year : Opt({0, 2023}),
   watched_since : Opt({<<2023, 1, 1>>}), watched_until : Opt({<<2023, 6, 30>>, <<987, 12, 5>>})]

NoFilter ==
  [release_start |-> None, release_end |-> None, watched_year |-> None,
   watched_since |-> None, watched_until |-> None]

Digits(n, width) ==
  LET s == ToString(n)
  IN IF width = 4 /\ n < 10 THEN "000" \o s
     ELSE IF width = 4 /\ n < 100 THEN "00" \o s
     ELSE IF width = 4 /\ n < 1000 THEN "0" \o s
     ELSE IF width = 2 /\ n < 10 THEN "0" \o s
     ELSE s

isoformat_unpadded(date) ==
  ToString(date[1]) \o "-" \o ToString(date[2]) \o "-" \o ToString(date[3])

\* datetime.date().isoformat(): YYYY-MM-DD
isoformat(date) ==
  Digits(date[1], 4) \o "-" \o Digits(date[2], 2) \o "-" \o Digits(date[3], 2)

\* "|".join(parts)
RECURSIVE join(_)
join(parts) ==
  IF Len(parts) = 1 THEN parts[1]
  ELSE join(SubSeq(parts, 1, Len(parts) - 1)) \o "|" \o parts[Len(parts)]

\* insights.py:22-32
to_timeframe_key(f) ==
  LET release ==
        IF Truthy(f.release_start) \/ Truthy(f.release_end)
        THEN <<"release:" \o (IF Truthy(f.release_start) THEN ToString(The(f.release_start)) ELSE "-")
                 \o "-" \o (IF Truthy(f.release_end) THEN ToString(The(f.release_end)) ELSE "-")>>
        ELSE <<>>
      year ==
        IF Truthy(f.watched_year) THEN <<"watched-year:" \o ToString(The(f.watched_year))>> ELSE <<>>
      watched ==
        IF Present(f.watched_since) \/ Present(f.watched_until)
        THEN <<"watched:" \o (IF Present(f.watched_since) THEN isoformat(The(f.watched_since)) ELSE "-")
                 \o "-" \o (IF Present(f.watched_until) THEN isoformat(The(f.watched_until)) ELSE "-")>>
        ELSE <<>>
      parts == release \o year \o watched
  IN IF parts = <<>> THEN "all" ELSE join(parts)

\* insights.py:114-119, cli.py buckets: the key of the filters of a computation
TimeframeKeyCall ==
  /\ calc.pc = "idle"
  /\ \E f \in BucketFilters : calc' = Call("to_timeframe_key", f)
  /\ UNCHANGED <<dbvars, others, store, graph, retry>>

TimeframeKeyReturn ==
  /\ calc.pc = "called" /\ calc.fn = "to_timeframe_key"
  /\ calc' = [calc EXCEPT !.pc = "returned", !.out = to_timeframe_key(calc.args)]
  /\ UNCHANGED <<dbvars, others, store, graph, retry>>

----------------------------------------------------------------------------
(* Table ranking_insights: insights.py compute_ranking_buckets, persist_insights and  *)
(* load_saved_buckets, called by workflows.py compute_bucket_insights and by the      *)
(* buckets command of cli.py. The filters column holds as_serializable_dict(), whose  *)
(* datetimes are ISO strings; from_dict parses them back.                             *)

KnownDates == {<<2023, 1, 1>>, <<2023, 6, 30>>, <<987, 12, 5>>}

\* datetime.isoformat() of a timezone-aware midnight (cli.py _ensure_timezone)
datetime_isoformat(date) == isoformat(date) \o "T00:00:00+00:00"

\* insights.py:34-41
as_serializable_dict(f) ==
  [release_start |-> f.release_start, release_end |-> f.release_end,
   watched_year |-> f.watched_year,
   watched_since |-> IF Present(f.watched_since) THEN Some(datetime_isoformat(The(f.watched_since))) ELSE None,
   watched_until |-> IF Present(f.watched_until) THEN Some(datetime_isoformat(The(f.watched_until))) ELSE None]

\* insights.py:350-358: None stays None, an int is returned as it is
_coerce_int(value) == value

\* insights.py:361-369: datetime.fromisoformat(str(value)), None when it does not parse
_parse_datetime(value) ==
  IF value = None THEN None
  ELSE IF \E d \in KnownDates : datetime_isoformat(d) = The(value)
       THEN Some(CHOOSE d \in KnownDates : datetime_isoformat(d) = The(value))
       ELSE None

from_dict_year_only(data) ==
  [release_start |-> None, release_end |-> None, watched_year |-> _coerce_int(data.watched_year),
   watched_since |-> None, watched_until |-> None]

\* insights.py:43-53
from_dict(data) ==
  [release_start |-> _coerce_int(data.release_start), release_end |-> _coerce_int(data.release_end),
   watched_year |-> _coerce_int(data.watched_year),
   watched_since |-> _parse_datetime(data.watched_since),
   watched_until |-> _parse_datetime(data.watched_until)]

\* Release year and last rating of the films, as the join of STATS_SQL delivers them.
release_year(film_id) == IF film_id = 1 THEN 1995 ELSE 1985
last_rating_at(film_id) == IF film_id = 1 THEN <<2023, 3, 1>> ELSE <<2022, 3, 1>>

DateLt(a, b) ==
  \/ a[1] < b[1]
  \/ a[1] = b[1] /\ a[2] < b[2]
  \/ a[1] = b[1] /\ a[2] = b[2] /\ a[3] < b[3]

\* insights.py:233-247
_matches_filters(stat, f) ==
  /\ ~(Truthy(f.release_start) /\ release_year(stat.film_id) < The(f.release_start))
  /\ ~(Truthy(f.release_end) /\ release_year(stat.film_id) > The(f.release_end))
  /\ ~(Truthy(f.watched_year) /\ last_rating_at(stat.film_id)[1] # The(f.watched_year))
  /\ ~(Present(f.watched_since) /\ DateLt(last_rating_at(stat.film_id), The(f.watched_since)))
  /\ ~(Present(f.watched_until) /\ DateLt(The(f.watched_until), last_rating_at(stat.film_id)))

RECURSIVE filtered_stats(_, _)
filtered_stats(stats, f) ==
  IF stats = <<>> THEN <<>>
  ELSE LET rest == filtered_stats(SubSeq(stats, 1, Len(stats) - 1), f)
       IN IF _matches_filters(stats[Len(stats)], f) THEN Append(rest, stats[Len(stats)]) ELSE rest

\* insights.py:111-127
compute_ranking_buckets(stats, cohort_id, strategy, f) ==
  [cohort_id |-> cohort_id, strategy |-> strategy, timeframe_key |-> to_timeframe_key(f),
   filters |-> f, insights |-> _derive_insights(filtered_stats(stats, f)), source |-> "computed"]

\* models.RankingInsight(...) of insights.py:140-154
RankingInsight(computation, insight) ==
  [cohort_id |-> computation.cohort_id, strategy |-> computation.strategy,
   film_id |-> insight.film_id, timeframe_key |-> computation.timeframe_key,
   filters |-> as_serializable_dict(computation.filters),
   watchers |-> insight.watchers, avg_rating |-> insight.avg_rating,
   watchers_percentile |-> insight.watchers_percentile,
   rating_percentile |-> insight.rating_percentile,
   watchers_zscore |-> insight.watchers_zscore, rating_zscore |-> insight.rating_zscore,
   bucket_label |-> insight.bucket_label, cluster_label |-> insight.cluster_label]

InsightRows(computation) ==
  {RankingInsight(computation, computation.insights[i]) : i \in 1..Len(computation.insights)}

\* The rows the WHERE clause of persist_insights and of load_saved_buckets selects.
UnderTimeframe(table, cohort_id, strategy, timeframe_key) ==
  {r \in table : r.cohort_id = cohort_id /\ r.strategy = strategy /\ r.timeframe_key = timeframe_key}

\* float(x or 0.0) of a stored z-score
or_zero(z) == IF z.num = 0 THEN [num |-> 0, rad |-> 1] ELSE z

\* insights.py:183-204: the FilmInsight built from a stored row
FilmInsight(row) ==
  [film_id |-> row.film_id, watchers |-> row.watchers, avg_rating |-> row.avg_rating,
   watchers_percentile |-> row.watchers_percentile, rating_percentile |-> row.rating_percentile,
   watchers_zscore |-> or_zero(row.watchers_zscore), rating_zscore |-> or_zero(row.rating_zscore),
   bucket_label |-> IF row.bucket_label = "" THEN "Unlabeled" ELSE row.bucket_label,
   cluster_label |-> IF row.cluster_label = "" THEN "Unclustered" ELSE row.cluster_label]

\* insights.py:173-177: ORDER BY bucket_label ASC, rating_percentile DESC, watchers_percentile DESC
OrderedRows(q) ==
  \A i, j \in 1..Len(q) : i < j =>
    \/ LabelPosition(q[i].bucket_label) < LabelPosition(q[j].bucket_label)
    \/ /\ q[i].bucket_label = q[j].bucket_label
       /\ \/ PctGt(q[i].rating_percentile, q[j].rating_percentile)
          \/ /\ PctEq(q[i].rating_percentile, q[j].rating_percentile)
             /\ ~PctGt(q[j].watchers_percentile, q[i].watchers_percentile)

\* insights.py:158-212 for the rows in the order the query returned them
load_saved_buckets(rows, cohort_id, strategy, timeframe_key) ==
  IF rows = <<>> THEN None
  ELSE Some([cohort_id |-> cohort_id, strategy |-> strategy, timeframe_key |-> timeframe_key,
             filters |-> from_dict(rows[1].filters),
             insights |-> [i \in 1..Len(rows) |-> FilmInsight(rows[i])],
             source |-> "stored"])


YearFilter == [NoFilter EXCEPT !.watched_year = Some(2023)]
RangeFilter ==
  [NoFilter EXCEPT !.watched_since = Some(<<2023, 1, 1>>), !.watched_until = Some(<<2023, 6, 30>>)]
CommandFilters == {NoFilter, YearFilter, RangeFilter}
LoadKeys == {to_timeframe_key(f) : f \in CommandFilters} \cup {"release:1990-1999"}

\* Rows of cohort_film_stats of the cohort of a call, films 1 and 2.
InsightStats ==
  {s \in FilmStats :
     /\ \A i \in 1..Len(s) : s[i].film_id \in {1, 2} /\ s[i].avg_rating > 0
     /\ \A i, j \in 1..Len(s) : i < j => s[i].film_id < s[j].film_id}

\* Tables left by earlier persisted computations.
OldStats ==
  {<<>>, <<[film_id |-> 1, watchers |-> 1, avg_rating |-> 1]>>,
   <<[film_id |-> 1, watchers |-> 2, avg_rating |-> 2], [film_id |-> 2, watchers |-> 1, avg_rating |-> 1]>>}
InsightKeys == {<<1, "bayesian", NoFilter>>, <<1, "bayesian", YearFilter>>, <<2, "bayesian", NoFilter>>}
InsightTables ==
  {UNION {InsightRows(compute_ranking_buckets(old[k], k[1], k[2], k[3])) : k \in InsightKeys} :
     old \in [InsightKeys -> OldStats]}

\* workflows.py:285-286: compute_bucket_insights computes with no filter.
ComputeBucketInsights ==
  /\ store.pc = "idle"
  /\ \E c \in CohortIds : \E persist \in BOOLEAN : \E stats \in InsightStats :
       store' = [store EXCEPT !.pc = "computed", !.fn = "compute_bucket_insights",
                   !.cohort_id = c, !.strategy = "bayesian", !.persist = persist, !.stats = stats,
                   !.results = compute_ranking_buckets(stats, c, "bayesian", NoFilter),
                   !.timeframe_key = to_timeframe_key(NoFilter),
                   !.before = store.ranking_insights, !.persisted = None]
  /\ UNCHANGED <<dbvars, others, calc, graph, retry>>

\* cli.py buckets without --load: the filters of the options are applied.
BucketsCommand ==
  /\ store.pc = "idle"
  /\ \E c \in CohortIds : \E persist \in BOOLEAN : \E stats \in InsightStats :
     \E f \in CommandFilters :
       store' = [store EXCEPT !.pc = "computed", !.fn = "buckets",
                   !.cohort_id = c, !.strategy = "bayesian", !.persist = persist, !.stats = stats,
                   !.results = compute_ranking_buckets(stats, c, "bayesian", f),
                   !.timeframe_key = to_timeframe_key(f),
                   !.before = store.ranking_insights, !.persisted = None]
  /\ UNCHANGED <<dbvars, others, calc, graph, retry>>

persists_always(st) == st.persist

\* workflows.py:287 and cli.py buckets: if persist and computation.insights
persists(st) == st.persist /\ st.results.insights # <<>>

\* insights.py:131-137: DELETE FROM ranking_insights WHERE cohort_id, strategy, timeframe_key
PersistInsightsDelete ==
  /\ store.pc = "computed" /\ store.fn \in {"compute_bucket_insights", "buckets"}
  /\ persists(store)
  /\ store' = [store EXCEPT !.pc = "deleted",
                 !.deleted = UnderTimeframe(store.ranking_insights, store.results.cohort_id,
                                            store.results.strategy, store.results.timeframe_key)]
  /\ UNCHANGED <<dbvars, others, calc, graph, retry>>

\* insights.py:138-155: one RankingInsight per insight is added to the session.
PersistInsightsAdd ==
  /\ store.pc = "deleted" /\ store.fn \in {"compute_bucket_insights", "buckets"}
  /\ store' = [store EXCEPT !.pc = "added", !.new = InsightRows(store.results),
                            !.persisted = Some(store.results)]
  /\ UNCHANGED <<dbvars, others, calc, graph, retry>>

\* persist_insights is not called: the session has nothing to write.
PersistInsightsSkipped ==
  /\ store.pc = "computed" /\ store.fn \in {"compute_bucket_insights", "buckets"}
  /\ ~persists(store)
  /\ store' = [store EXCEPT !.pc = "added"]
  /\ UNCHANGED <<dbvars, others, calc, graph, retry>>

\* session.py:34: get_session commits; workflows.py:288-294 returns the result.
CommitInsights ==
  /\ store.pc = "added" /\ store.fn \in {"compute_bucket_insights", "buckets"}
  /\ store' = [store EXCEPT !.pc = "committed",
                 !.ranking_insights = (store.ranking_insights \ store.deleted) \cup store.new,
                 !.deleted = {}, !.new = {},
                 !.out = [rows |-> Len(store.results.insights), persisted |-> persists(store)]]
  /\ UNCHANGED <<dbvars, others, calc, graph, retry>>

\* refresh_stats rewrites cohort_film_stats after the computation.
StatsChange ==
  /\ store.pc = "committed" /\ store.fn \in {"compute_bucket_insights", "buckets"}
  /\ store' = [store EXCEPT !.stats = IF store.stats = <<>>
                                      THEN <<[film_id |-> 1, watchers |-> 2, avg_rating |-> 2]>>
                                      ELSE <<>>]
  /\ UNCHANGED <<dbvars, others, calc, graph, retry>>

\* cli.py buckets --load: load_saved_buckets reads the rows under the key in the order
\* of its ORDER BY, rows equal on the three columns in any order.
LoadSavedBuckets ==
  /\ store.pc \in {"idle", "committed"} /\ store.fn \in {"", "compute_bucket_insights", "buckets"}
  /\ \E c \in CohortIds : \E key \in LoadKeys :
     \E q \in Orders(UnderTimeframe(store.ranking_insights, c, "bayesian", key)) :
       /\ OrderedRows(q)
       /\ store' = [store EXCEPT !.pc = "loaded", !.fn = "load_saved_buckets",
                      !.cohort_id = c, !.strategy = "bayesian", !.timeframe_key = key,
                      !.out = load_saved_buckets(q, c, "bayesian", key)]
  /\ UNCHANGED <<dbvars, others, calc, graph, retry>>

----------------------------------------------------------------------------
(* ratings.py _execute_with_deadlock_retry: the statement is executed in a            *)
(* transaction of its own (bind.begin()), again after a deadlock.                     *)

\* ratings.py:283-284: max_attempts: int = 5, base_delay: float = 0.05 (here in ms)
max_attempts == 5
base_delay == 50

\* Exceptions conn.execute raises: OperationalError with the pgcode of its cause and
\* whether its text holds "deadlock detected", and an error of another class.
DbErrors ==
  {[class |-> "OperationalError", pgcode |-> "40P01", deadlock_detected |-> FALSE],
   [class |-> "OperationalError", pgcode |-> "", deadlock_detected |-> TRUE],
   [class |-> "OperationalError", pgcode |-> "57014", deadlock_detected |-> FALSE],
   [class |-> "IntegrityError", pgcode |-> "23505", deadlock_detected |-> FALSE]}

NoRetry ==
  [pc |-> "idle", attempt |-> 0, executions |-> 0, seen |-> <<>>, slept |-> <<>>,
   raised |-> {}, out |-> ""]

\* ratings.py:300-306
_is_deadlock_error(exc) == exc.pgcode = "40P01" \/ exc.deadlock_detected

\* ratings.py:291-293: only OperationalError is caught; it is raised again unless it is
\* a deadlock before the last attempt.
reraised(exc, attempt) ==
  \/ exc.class # "OperationalError"
  \/ ~_is_deadlock_error(exc)
  \/ attempt = max_attempts - 1

backoff_delay_doubling(attempt) == base_delay * 2 ^ attempt

\* ratings.py:295: time.sleep(base_delay * (attempt + 1))
backoff_delay(attempt) == base_delay * (attempt + 1)

\* ratings.py:287: for attempt in range(max_attempts)
RetryCall ==
  /\ retry.pc = "idle"
  /\ retry' = [retry EXCEPT !.pc = "attempt"]
  /\ UNCHANGED <<dbvars, others, calc, store, graph>>

\* ratings.py:289-290: the statement succeeds and its result is returned.
ExecuteReturns ==
  /\ retry.pc = "attempt" /\ retry.attempt < max_attempts
  /\ retry' = [retry EXCEPT !.pc = "returned", !.executions = @ + 1, !.out = "result"]
  /\ UNCHANGED <<dbvars, others, calc, store, graph>>

\* ratings.py:291-293: the statement raises and the exception leaves the function.
ExecuteRaises ==
  /\ retry.pc = "attempt" /\ retry.attempt < max_attempts
  /\ \E exc \in DbErrors :
       /\ reraised(exc, retry.attempt)
       /\ retry' = [retry EXCEPT !.pc = "raised", !.executions = @ + 1,
                                 !.seen = Append(@, exc), !.raised = {exc}]
  /\ UNCHANGED <<dbvars, others, calc, store, graph>>

\* ratings.py:294-295: a deadlock before the last attempt: sleep, then the next attempt.
ExecuteDeadlock ==
  /\ retry.pc = "attempt" /\ retry.attempt < max_attempts
  /\ \E exc \in DbErrors :
       /\ ~reraised(exc, retry.attempt)
       /\ retry' = [retry EXCEPT !.executions = @ + 1, !.seen = Append(@, exc),
                                 !.slept = Append(@, backoff_delay(retry.attempt)),
                                 !.attempt = @ + 1]
  /\ UNCHANGED <<dbvars, others, calc, store, graph>>

----------------------------------------------------------------------------
(* Cohort refresh: follow_graph.py expand_follow_graph walks the follow graph and     *)
(* cohorts.py refresh_cohort_members rewrites cohort_members from its edges           *)
(* (workflows.py refresh_cohort_membership, cli.py cohort_refresh).                   *)

GraphUsers == {"seed", "a", "b"}
UserOrder == <<"seed", "a", "b">>

\* The follow lists of Letterboxd: nobody follows themselves.
FollowGraphs == {g \in [GraphUsers -> SUBSET GraphUsers] : \A u \in GraphUsers : u \notin g[u]}

\* definition["depth"] of the cohort
Depths == {1, 2}

\* models.CohortMember(cohort_id, user_id, depth), the user named by its username
CohortMember(cohort_id, user, depth) == [cohort_id |-> cohort_id, user |-> user, depth |-> depth]

\* Members stored by an earlier refresh of cohort 1; cohort 2 has one member.
MemberTables ==
  {old \cup {CohortMember(2, "b", 1)} :
     old \in {{}, {CohortMember(1, "b", 1)}, {CohortMember(1, "a", 1), CohortMember(1, "b", 2)}}}

\* The usernames of the users table before the refresh: the seed of a cohort is stored.
StoredUsers == {{"seed"}, {"seed", "b"}, GraphUsers}

NoGraph ==
  [pc |-> "idle", following |-> [u \in GraphUsers |-> {}], depth |-> 0, include_seed |-> FALSE,
   cohort_members |-> {}, before |-> {}, level |-> 0, current_level |-> <<>>, idx |-> 0,
   next_level |-> <<>>, visited |-> {}, edges |-> <<>>, deleted |-> {}, pending |-> <<>>,
   persistent |-> {}, known |-> {"seed"}, known0 |-> {"seed"}, k |-> 0]

\* follow_graph.py:27-65: the accounts a user follows, in the order of the pages
fetch_following(following, username) ==
  SelectSeq(UserOrder, LAMBDA u : u \in following[username])

\* follow_graph.py:94-99: every follow of the user is yielded with the level; the ones
\* not visited before are added to visited and to next_level.
RECURSIVE walk_follows(_, _, _)
walk_follows(st, follows, i) ==
  IF i > Len(follows) THEN st
  ELSE LET follow == follows[i]
           yielded == [st EXCEPT !.edges = Append(@, <<st.level, follow>>)]
       IN walk_follows(IF follow \notin st.visited
                       THEN [yielded EXCEPT !.visited = @ \cup {follow},
                                            !.next_level = Append(@, follow)]
                       ELSE yielded,
                       follows, i + 1)

SamePrimaryKey(r, member) == r.cohort_id = member.cohort_id /\ r.user = member.user

\* Two members of the session not yet flushed have the same primary key: their INSERTs
\* violate the primary key of cohort_members.
HasDuplicate(pending) ==
  \E i, j \in 1..Len(pending) : i < j /\ SamePrimaryKey(pending[i], pending[j])

\* cohorts.py:13-23 get_or_create_user: a username not stored yet is added and the session
\* is flushed (line 22), which writes every member added so far; a stored one is returned
\* with no flush (the session is made with autoflush=False, session.py:24).
flushed_by_user(st, username) ==
  IF username \in st.known THEN st
  ELSE [st EXCEPT !.known = @ \cup {username},
                  !.persistent = @ \cup {st.pending[i] : i \in 1..Len(st.pending)},
                  !.pending = <<>>]

\* cohorts.py:53 session.merge(member): a member already flushed in this session is in the
\* identity map and takes the state of the given one; otherwise the SELECT by primary key
\* finds no row (no autoflush, the old rows are deleted) and a new member is added to the
\* session, whether or not an unflushed member has the same key.
session_merge(st, member) ==
  IF \E r \in st.persistent : SamePrimaryKey(r, member)
  THEN [st EXCEPT !.persistent = {r \in @ : ~SamePrimaryKey(r, member)} \cup {member}]
  ELSE [st EXCEPT !.pending = Append(@, member)]

\* session.py:35-37: the exception rolls the transaction back.
rolled_back(st) ==
  [st EXCEPT !.pc = "raised", !.deleted = {}, !.pending = <<>>, !.persistent = {},
             !.known = st.known0]

\* workflows.py:188-201: the definition of the cohort is read and the traversal starts
\* (follow_graph.py:90-91).
RefreshBegin ==
  /\ graph.pc = "idle"
  /\ graph' = [graph EXCEPT !.pc = "expanding", !.before = graph.cohort_members, !.level = 1,
                            !.current_level = <<"seed">>, !.idx = 1, !.next_level = <<>>,
                            !.visited = {"seed"}, !.edges = <<>>]
  /\ UNCHANGED <<dbvars, others, calc, store, retry>>

\* follow_graph.py:94-99: one username of the current level
FetchFollowing ==
  /\ graph.pc = "expanding" /\ graph.level <= graph.depth
  /\ graph.idx <= Len(graph.current_level)
  /\ graph' = [walk_follows(graph, fetch_following(graph.following, graph.current_level[graph.idx]), 1)
                 EXCEPT !.idx = graph.idx + 1]
  /\ UNCHANGED <<dbvars, others, calc, store, retry>>

\* follow_graph.py:92-93, 100: current_level = next_level and the next level starts
NextLevel ==
  /\ graph.pc = "expanding" /\ graph.level <= graph.depth
  /\ graph.idx > Len(graph.current_level)
  /\ graph' = [graph EXCEPT !.level = @ + 1, !.current_level = graph.next_level,
                            !.next_level = <<>>, !.idx = 1]
  /\ UNCHANGED <<dbvars, others, calc, store, retry>>

\* cohorts.py:101-104: the members of the cohort are deleted in the transaction, and the
\* seed (a stored user) is merged at depth 0 when include_seed is set.
RefreshMembersBegin ==
  /\ graph.pc = "expanding" /\ graph.level > graph.depth
  /\ LET st == [graph EXCEPT !.pc = "adding", !.k = 1, !.known0 = graph.known,
                  !.deleted = {r \in graph.cohort_members : r.cohort_id = 1},
                  !.pending = <<>>, !.persistent = {}]
     IN graph' = IF graph.include_seed THEN session_merge(st, CohortMember(1, "seed", 0)) ELSE st
  /\ UNCHANGED <<dbvars, others, calc, store, retry>>

\* cohorts.py:105-107: one edge: get_or_create_user, then add_member merges a member with
\* the depth of the edge.
AddMember ==
  /\ graph.pc = "adding" /\ graph.k <= Len(graph.edges)
  /\ LET depth == graph.edges[graph.k][1]
         username == graph.edges[graph.k][2]
     IN IF username \notin graph.known /\ HasDuplicate(graph.pending)
        THEN graph' = rolled_back(graph)
        ELSE graph' = [session_merge(flushed_by_user(graph, username),
                                     CohortMember(1, username, depth))
                         EXCEPT !.k = graph.k + 1]
  /\ UNCHANGED <<dbvars, others, calc, store, retry>>

\* session.py:34: get_session commits: the members not yet flushed are written, and the
\* DELETE and the members reach the table unless two of them have the same key.
RefreshCommit ==
  /\ graph.pc = "adding" /\ graph.k > Len(graph.edges)
  /\ IF HasDuplicate(graph.pending)
     THEN graph' = rolled_back(graph)
     ELSE graph' = [graph EXCEPT !.pc = "refreshed",
                      !.cohort_members = (graph.cohort_members \ graph.deleted) \cup graph.persistent
                                           \cup {graph.pending[i] : i \in 1..Len(graph.pending)},
                      !.deleted = {}, !.pending = <<>>, !.persistent = {}]
  /\ UNCHANGED <<dbvars, others, calc, store, retry>>

----------------------------------------------------------------------------
(* Idle values of the parts a specification leaves out *)



MoreIdle == calc = NoCalc /\ store = NoStore /\ graph = NoGraph /\ retry = NoRetry

OthersIdle ==
  scrape = NoScrape /\ batch = NoBatch /\ merge = NoMerge /\ job = NoJob /\ rank = NoRank /\ MoreIdle

----------------------------------------------------------------------------
\* Records that differ in identity only: a slug without external id, the same slug
\* with one, another slug with the same external id.
IdentityPool ==
  {FilmRating("a", 0, 1, FALSE, FALSE), FilmRating("a", 1, 1, FALSE, FALSE),
   FilmRating("b", 1, 1, FALSE, FALSE)}
UsersOf(w) == IF w = 1 THEN {"u1"} ELSE Usernames

Init ==
  /\ dialect \in {"postgresql", "sqlite"}
  /\ films = {} /\ users = {} /\ ratings = {}
  /\ tx = [w \in Workers |-> NoTx]
  /\ sess = [w \in Workers |-> IdleSession]
  /\ clock = 1
  /\ started = 0
  /\ hist = NoHist
  /\ OthersIdle

Next ==
  \E w \in Workers :
       \/ StartBatch(w, UsersOf(w), 0)
       \/ UserSelect(w)
       \/ UserInsert(w)
       \/ NextRecord(w, IdentityPool)
       \/ PgInsert(w)
       \/ PgRefind(w)
       \/ SpBegin(w)
       \/ SpInsert(w)
       \/ SpRefind(w)
       \/ EndRecords(w, {<<TRUE, FALSE>>}, {{"-"}})
       \/ Commit(w)

Spec == Init /\ [][Next]_vars

----------------------------------------------------------------------------
(* Specification of two workers resolving the same new film *)

UserOf(w) == IF w = 1 THEN {"u1"} ELSE {"u2"}

InitRace ==
  /\ dialect \in {"postgresql", "sqlite"}
  /\ films = {} /\ users = {} /\ ratings = {}
  /\ tx = [w \in Workers |-> NoTx]
  /\ sess = [w \in Workers |-> IdleSession]
  /\ clock = 1
  /\ started = 0
  /\ \E rec \in IdentityPool : hist = [NoHist EXCEPT !.phase = 4, !.recs = <<rec>>]
  /\ OthersIdle

NextRace ==
  \E w \in Workers :
       \/ StartBatch(w, UserOf(w), 0)
       \/ UserSelect(w)
       \/ UserInsert(w)
       \/ NextRecord(w, IdentityPool)
       \/ PgInsert(w)
       \/ PgRefind(w)
       \/ SpBegin(w)
       \/ SpInsert(w)
       \/ SpRefind(w)
       \/ EndRecords(w, {<<TRUE, FALSE>>}, {{"-"}})
       \/ Commit(w)

SpecRace == InitRace /\ [][NextRace]_vars

----------------------------------------------------------------------------
(* Claims *)

\* C1: in every reachable state, committed or seen from inside any open transaction,
\* at most one film row holds a given letterboxd_film_id and at most one film row
\* holds a given slug.
FilmKeysUnique(S) ==
  \A r1 \in S : \A r2 \in S :
    r1 # r2 => /\ r1.id # r2.id
               /\ r1.slug # r2.slug
               /\ (r1.lid # 0 => r1.lid # r2.lid)
C1_UniqueFilmIdentity ==
  /\ FilmKeysUnique(films)
  /\ \A w \in Workers : FilmKeysUnique(FilmView(w))

\* A worker's insert attempt has just lost against the row of another worker, and
\* two distinct films are stored.
C1_Witness ==
  /\ Cardinality(films) = 2
  /\ \E w \in Workers : sess[w].pc \in {"pg_refind", "sp_refind"} /\ sess[w].created = {}

\* C2: when two workers resolve the same new (slug, external id), no call raises,
\* there is never more than one film row, each caller holds that row once it has
\* resolved the record, and when both batches are committed the single film row
\* carries the rating of both users.
C2_RaceYieldsOneFilm ==
  /\ \A w \in Workers : sess[w].result # "failed"
  /\ Cardinality({r.id : r \in films \cup AllTxFilms}) <= 1
  /\ \A w \in Workers :
       (sess[w].pc # "idle" /\ sess[w].n >= 1) => HasFilm(FilmView(w), sess[w].fid)
  /\ (\A w \in Workers : sess[w].result = "ok" /\ sess[w].pc = "idle") =>
       /\ Cardinality(films) = 1
       /\ \A w \in Workers : \A r \in films : \A u \in UserOf(w) : HasRating(ratings, u, r.id)

\* Both batches are committed, and one of the workers did not create the film: its
\* insert met the row of the other worker.
C2_Witness ==
  /\ \A w \in Workers : sess[w].result = "ok" /\ sess[w].pc = "idle"
  /\ \E w \in Workers : sess[w].created = {}
  /\ \E w \in Workers : sess[w].created # {}
  /\ Cardinality(ratings) = 2


----------------------------------------------------------------------------
(* Specification of one ingesting worker next to metadata enrichment *)

NextEnrich ==
  \/ StartBatch(1, {"u1"}, 0)
  \/ UserSelect(1)
  \/ UserInsert(1)
  \/ NextRecord(1, IdentityPool)
  \/ PgInsert(1)
  \/ PgRefind(1)
  \/ SpBegin(1)
  \/ SpInsert(1)
  \/ SpRefind(1)
  \/ EndRecords(1, {<<TRUE, FALSE>>}, {{"-"}})
  \/ Commit(1)
  \/ EnrichFilm

SpecEnrich == Init /\ [][NextEnrich]_vars

----------------------------------------------------------------------------
(* Specification of one worker ingesting batches one after the other *)

NextSolo ==
  \/ StartBatch(1, {"u1"}, 0)
  \/ UserSelect(1)
  \/ UserInsert(1)
  \/ NextRecord(1, IdentityPool)
  \/ PgInsert(1)
  \/ PgRefind(1)
  \/ SpBegin(1)
  \/ SpInsert(1)
  \/ EndRecords(1, {<<TRUE, FALSE>>}, {{"-"}})
  \/ Commit(1)

SpecSolo == Init /\ [][NextSolo]_vars

----------------------------------------------------------------------------
(* Specifications of one worker whose records differ in rating, liked and favorite: *)
(* batches from the empty database, a call repeated on a stored state, and batches  *)
(* with every pair of watermark requests                                            *)

PayloadPool ==
  {FilmRating("a", 0, 1, FALSE, FALSE), FilmRating("a", 0, 0, TRUE, FALSE),
   FilmRating("a", 0, 2, FALSE, TRUE), FilmRating("b", 0, 1, FALSE, TRUE)}
Touches == BOOLEAN \X BOOLEAN
FavoriteSlugs == {{"-"}, {}, {"a"}}

\* Stored states a repeated call starts from: the empty database, and what batches
\* at time 1 leave behind.
StoredDBs ==
  {[films |-> {}, users |-> {}, ratings |-> {}],
   [films |-> {FilmRow(1, "a", 0)},
    users |-> {UserRow("u1", 0, 0)},
    ratings |-> {RatingRow("u1", 1, 1, FALSE, TRUE, 1)}],
   [films |-> {FilmRow(1, "a", 0), FilmRow(2, "b", 0)},
    users |-> {UserRow("u1", 1, 0)},
    ratings |-> {RatingRow("u1", 1, 0, TRUE, FALSE, 1), RatingRow("u1", 2, 2, FALSE, TRUE, 1)}]}

InitSeq ==
  /\ dialect \in {"postgresql", "sqlite"}
  /\ films = {} /\ users = {} /\ ratings = {}
  /\ tx = [w \in Workers |-> NoTx]
  /\ sess = [w \in Workers |-> IdleSession]
  /\ clock = 1
  /\ started = 0
  /\ hist = NoHist
  /\ OthersIdle

\* The first of two identical calls starts from a stored state and is recorded.
InitIdem ==
  /\ dialect \in {"postgresql", "sqlite"}
  /\ \E db \in StoredDBs :
       films = db.films /\ users = db.users /\ ratings = db.ratings
  /\ tx = [w \in Workers |-> NoTx]
  /\ sess = [w \in Workers |-> IdleSession]
  /\ clock = 1
  /\ started = 0
  /\ hist = [NoHist EXCEPT !.phase = 1]
  /\ OthersIdle

\* scrape_user_ratings requests one watermark: touch_last_full = not incremental.
NextSeq ==
  \/ StartBatch(1, {"u1"}, 1)
  \/ UserSelect(1)
  \/ UserInsert(1)
  \/ NextRecord(1, PayloadPool)
  \/ PgInsert(1)
  \/ PgRefind(1)
  \/ SpBegin(1)
  \/ SpInsert(1)
  \/ EndRecords(1, {<<TRUE, FALSE>>, <<FALSE, TRUE>>}, FavoriteSlugs)
  \/ SyncFavorites(1)
  \/ Commit(1)

SpecSeq == InitSeq /\ [][NextSeq]_vars

NextIdem ==
  \/ StartBatch(1, {"u1"}, 1)
  \/ UserSelect(1)
  \/ UserInsert(1)
  \/ NextRecord(1, PayloadPool)
  \/ PgInsert(1)
  \/ PgRefind(1)
  \/ SpBegin(1)
  \/ SpInsert(1)
  \/ EndRecords(1, Touches, FavoriteSlugs)
  \/ SyncFavorites(1)
  \/ Commit(1)

SpecIdem == InitIdem /\ [][NextIdem]_vars

\* One record, every pair of watermark requests.
TouchPool == {FilmRating("a", 0, 1, FALSE, FALSE)}

NextTouch ==
  \/ StartBatch(1, {"u1"}, 1)
  \/ UserSelect(1)
  \/ UserInsert(1)
  \/ NextRecord(1, TouchPool)
  \/ PgInsert(1)
  \/ PgRefind(1)
  \/ SpBegin(1)
  \/ SpInsert(1)
  \/ EndRecords(1, Touches, {{"-"}})
  \/ Commit(1)

SpecTouch == InitSeq /\ [][NextTouch]_vars

----------------------------------------------------------------------------
\* C3: once a committed film row carries a letterboxd_film_id, no step of ingestion or
\* of enrichment changes that row's letterboxd_film_id to another value.
C3_ExternalIdImmutable ==
  [][\A r \in films : r.lid # 0 =>
       \A r2 \in films' : r2.id = r.id => r2.lid = r.lid]_vars

----------------------------------------------------------------------------
\* A step in which worker w finished get_or_create_film for a record.
Resolved(w) == sess'[w].n = sess[w].n + 1

\* C4 as stated: a record is resolved to a row found by its slug only when the
\* record carries no letterboxd_film_id.
C4_SlugOnlyWithoutId ==
  [][\A w \in Workers :
       Resolved(w) /\ sess'[w].how = "slug" => sess'[w].rec.lid = 0]_vars

\* C4 amended: a record is resolved to the row that holds its letterboxd_film_id
\* when the session sees such a row; otherwise, with or without an id in the record,
\* to the row that holds its slug; otherwise to a row created for it.  The resolved
\* film object takes the record's slug, and the record's id only where it had none.
C4_ResolutionOrder ==
  [][\A w \in Workers :
       Resolved(w) =>
         LET rec == sess'[w].rec
             fid == sess'[w].fid
             how == sess'[w].how
             view == FilmView(w)
             held == rec.lid # 0 /\ \E r \in view : r.lid = rec.lid
             old == IF sess[w].fobjs[fid].in THEN sess[w].fobjs[fid].cur
                    ELSE IF HasFilm(view, fid)
                         THEN FilmAttrs(TheFilm(view, fid).slug, TheFilm(view, fid).lid)
                         ELSE FilmAttrs(rec.slug, rec.lid)
         IN /\ how \in {"id", "slug", "new"}
            /\ how = "new" => fid \in sess'[w].created
            /\ how # "new" /\ held => how = "id" /\ TheFilm(view, fid).lid = rec.lid
            /\ how # "new" /\ ~held => how = "slug" /\ TheFilm(view, fid).slug = rec.slug
            /\ sess'[w].fobjs[fid].cur =
                 FilmAttrs(rec.slug, IF old.lid # 0 THEN old.lid ELSE rec.lid)]_vars

\* A record with an external id that no row held was resolved to the row found by
\* its slug, and that row's film object took the record's id.
C4_Witness ==
  \E w \in Workers :
    /\ sess[w].pc = "loop" /\ sess[w].n > 0
    /\ sess[w].how = "slug" /\ sess[w].rec.lid # 0
    /\ sess[w].fobjs[sess[w].fid].cur.lid = sess[w].rec.lid
    /\ sess[w].fobjs[sess[w].fid].orig.lid = 0

----------------------------------------------------------------------------
\* Session s holds a film object whose slug was changed and is not yet flushed.
RenamePending(s) ==
  \E fid \in FilmIds : s.fobjs[fid].in /\ s.fobjs[fid].cur.slug # s.fobjs[fid].orig.slug

\* C5: a record whose letterboxd_film_id matches a stored film row R and whose slug
\* differs is resolved to R, R's film object takes the incoming slug, no film row is
\* created for the record, and no later step of the batch fails on a unique key of films.
C5_RenameByIdCompletes ==
  [][\A w \in Workers :
       /\ Resolved(w) /\ sess'[w].how = "id" =>
            /\ TheFilm(FilmView(w), sess'[w].fid).lid = sess'[w].rec.lid
            /\ sess'[w].fobjs[sess'[w].fid].cur.slug = sess'[w].rec.slug
            /\ sess'[w].created = sess[w].created
            /\ tx'[w].films = tx[w].films /\ films' = films
       /\ RenamePending(sess[w]) => sess'[w].err # "IntegrityError:films"]_vars

----------------------------------------------------------------------------
\* The repeated call has ended: hist.films and hist.ratings are the tables the first
\* call left, films and ratings those the second call left.
Repeated == hist.phase = 3

SameValues(r, h) ==
  /\ r.user = h.user /\ r.film = h.film
  /\ r.rating = h.rating /\ r.liked = h.liked /\ r.favorite = h.favorite

\* C6 as stated: after the second of two identical upsert_ratings calls the film rows
\* and the rating rows, timestamps included, are those the first call left.
C6_IdenticalAfterRepeat ==
  Repeated => films = hist.films /\ ratings = hist.ratings

\* C6 amended: after the second call the film rows are those the first call left and
\* the rating rows are the same in number and in rating, liked and favorite; updated_at
\* is either unchanged or, for a film named by a record of the call, the time of the
\* second call.
C6_IdempotentUpToUpdatedAt ==
  Repeated =>
    /\ films = hist.films
    /\ Cardinality(ratings) = Cardinality(hist.ratings)
    /\ \A r \in ratings : \E h \in hist.ratings :
         /\ SameValues(r, h)
         /\ \/ r.updated_at = h.updated_at
            \/ /\ r.updated_at = clock
               /\ \E i \in 1..Len(hist.recs) :
                    hist.recs[i].slug = TheFilm(films, r.film).slug

\* Both calls succeeded, the second found the row of the first and only moved
\* its updated_at.
C6_Witness ==
  /\ Repeated /\ hist.result = "ok" /\ sess[1].result = "ok"
  /\ Len(hist.recs) > 0
  /\ ratings # hist.ratings
  /\ \E r \in ratings : \E h \in hist.ratings : SameValues(r, h) /\ r.updated_at > h.updated_at

----------------------------------------------------------------------------
\* The rating object of (user of s, film fid) as session s of worker w sees it before
\* a record is applied: the loaded object, else the stored row.
ExistingRating(w, s, fid) == s.robjs[fid].in \/ HasRating(RatingView(w), s.user, fid)
OldRating(w, s, fid) ==
  IF s.robjs[fid].in THEN s.robjs[fid].cur
  ELSE LET r == TheRating(RatingView(w), s.user, fid)
       IN RatingAttrs(r.rating, r.liked, r.favorite, r.updated_at)

\* favorite_slugs of the batch of s keeps the favorite flag of the film with this slug.
KeepsFavorite(s, slug) == s.fav = {"-"} \/ (s.fav # {} /\ slug \in s.fav)

\* C7 as stated: a record applied to an existing rating row leaves the record's
\* rating (absent included), liked and favorite in it.
C7_RecordReplaces ==
  [][\A w \in Workers :
       Resolved(w) /\ ExistingRating(w, sess[w], sess'[w].fid) =>
         LET cur == sess'[w].robjs[sess'[w].fid].cur
             rec == sess'[w].rec
         IN cur.rating = rec.rating /\ cur.liked = rec.liked /\ cur.favorite = rec.favorite]_vars

\* C7 amended: a record applied to an existing rating row leaves the record's liked and
\* favorite in it, and the record's rating when it carries one; a record without
\* rating keeps the row's rating.  Without a row, one with the record's values is added.
\* When the batch commits, the row of the last record holds that record's liked, its
\* rating if it carries one, and its favorite unless favorite_slugs cleared it.
C7_RecordOverwrites ==
  [][\A w \in Workers :
       LET s == sess[w]
           t == sess'[w]
       IN /\ Resolved(w) =>
               IF ExistingRating(w, s, t.fid)
               THEN /\ t.robjs[t.fid].in
                    /\ t.robjs[t.fid].cur.liked = t.rec.liked
                    /\ t.robjs[t.fid].cur.favorite = t.rec.favorite
                    /\ t.robjs[t.fid].cur.rating =
                         IF t.rec.rating # 0 THEN t.rec.rating
                         ELSE OldRating(w, s, t.fid).rating
                    /\ t.pending = s.pending
               ELSE /\ ~t.robjs[t.fid].in
                    /\ t.pending = Append(s.pending,
                         [film |-> t.fid, rating |-> t.rec.rating,
                          liked |-> t.rec.liked, favorite |-> t.rec.favorite])
          /\ s.pc = "commit" /\ t.result = "ok" /\ s.n > 0 =>
               /\ HasRating(ratings', s.user, s.fid)
               /\ LET row == TheRating(ratings', s.user, s.fid)
                  IN /\ row.liked = s.rec.liked
                     /\ s.rec.rating # 0 => row.rating = s.rec.rating
                     /\ row.favorite = (s.rec.favorite /\
                          KeepsFavorite(s, TheFilm(films', s.fid).slug))]_vars

\* A record without rating was applied to a rating object that holds a rating: the
\* rating stayed, liked was taken from the record.
C7_Witness ==
  \E w \in Workers :
    /\ sess[w].pc = "loop" /\ sess[w].n > 0
    /\ sess[w].rec.rating = 0 /\ sess[w].rec.liked
    /\ sess[w].robjs[sess[w].fid].in
    /\ sess[w].robjs[sess[w].fid].cur.rating # 0
    /\ sess[w].robjs[sess[w].fid].cur.liked
    /\ ~sess[w].robjs[sess[w].fid].orig.liked

----------------------------------------------------------------------------
\* C8: there is one rating row per (user, film), and a batch with two records for the
\* same film does not fail.
C8_DuplicateRecordsOverwrite ==
  [][/\ \A r1, r2 \in ratings' : r1.user = r2.user /\ r1.film = r2.film => r1 = r2
     /\ \A w \in Workers :
          sess[w].pc # "idle" /\ sess[w].dup => sess'[w].result # "failed"]_vars

\* C9: the step in which a batch fails leaves no film row that the batch created, no
\* row of its transaction, and the committed users and ratings as they were.
C9_FailedBatchPersistsNothing ==
  [][\A w \in Workers :
       sess[w].pc # "idle" /\ sess'[w].result = "failed" =>
         /\ \A id \in sess[w].created : ~HasFilm(films', id)
         /\ tx'[w] = NoTx
         /\ users' = users /\ ratings' = ratings]_vars

----------------------------------------------------------------------------
\* The committed watermarks of a user, 0 for a user without row.
Watermarks(U, name) ==
  IF HasUser(U, name) THEN UserAttrs(TheUser(U, name).full, TheUser(U, name).incr)
  ELSE UserAttrs(0, 0)

\* C10: when a batch commits, empty or not, last_full_scrape_at is the batch time if
\* touch_last_full was requested and its previous value otherwise, and likewise
\* last_incremental_scrape_at with touch_last_incremental.
C10_WatermarksAsRequested ==
  [][\A w \in Workers :
       sess[w].pc = "commit" /\ sess'[w].result = "ok" =>
         LET s == sess[w]
             old == Watermarks(users, s.user)
             new == Watermarks(users', s.user)
         IN /\ HasUser(users', s.user)
            /\ s.now = clock
            /\ new.full = IF s.tf THEN s.now ELSE old.full
            /\ new.incr = IF s.ti THEN s.now ELSE old.incr]_vars

\* Two empty batches, one with touch_last_full only and one with
\* touch_last_incremental only, have each left the other's watermark alone.
C10_Witness ==
  /\ ratings = {} /\ films = {}
  /\ sess[1].pc = "idle" /\ sess[1].result = "ok"
  /\ \E u \in users : u.full # 0 /\ u.incr # 0 /\ u.full # u.incr

----------------------------------------------------------------------------
(* Specification of one call of scrape_user_ratings on a stored state *)

InitScrape ==
  /\ dialect \in {"postgresql", "sqlite"}
  /\ \E d \in StoredDBs :
       films = d.films /\ users = d.users /\ ratings = d.ratings
  /\ tx = [w \in Workers |-> NoTx]
  /\ sess = [w \in Workers |-> IdleSession]
  /\ clock = 1
  /\ started = 0
  /\ hist = [NoHist EXCEPT !.phase = 4]
  /\ OthersIdle

NextScrape ==
  \/ ScrapeBegin({"u1"})
  \/ ScrapeFavorites
  \/ ScrapeRating
  \/ ScrapeLike
  \/ ScrapeFail
  \/ ScrapeCombine
  \/ (scrape.pc = "persist" /\ sess[1].result = "none" /\ StartBatch(1, {scrape.user}, 1))
  \/ UserSelect(1)
  \/ UserInsert(1)
  \/ NextRecord(1, {})
  \/ PgInsert(1)
  \/ PgRefind(1)
  \/ SpBegin(1)
  \/ SpInsert(1)
  \/ EndRecords(1, {<<~scrape.incremental, scrape.incremental>>}, {favorite_profile_slugs(scrape)})
  \/ SyncFavorites(1)
  \/ Commit(1)
  \/ ScrapeReturn

SpecScrape == InitScrape /\ [][NextScrape]_vars

\* A record is in the snapshot with an equal rating by value (0 stands for an absent rating).
ValueMatch(snapshot, rec) == rec.slug \in DOMAIN snapshot /\ snapshot[rec.slug] = rec.rating

RatingStream == fetch_user_ratings(scrape.up, SlugsOf(scrape.profile_favorites))
LikedStream == fetch_user_liked_films(scrape.up, SlugsOf(scrape.profile_favorites))

\* Position of the first record of the stream that matches, one past the end when none does.
FirstMatch(stream, snapshot) ==
  LET M == {k \in 1..Len(stream) : ValueMatch(snapshot, stream[k])}
  IN IF M = {} THEN Len(stream) + 1 ELSE CHOOSE k \in M : \A m \in M : k <= m

RatingsDone == scrape.pc \in {"likes", "combine"} \/ scrape.combined # <<>> \/ scrape.pc = "persist"
Assembled == scrape.pc = "persist" \/ (scrape.pc = "done" /\ sess[1].result # "none")
RatedOnly(rec) == rec.rating # 0

\* C11: scrape_user_ratings consumes the rating stream in the producer's order and stops
\* at the first record whose slug is in the snapshot with an equal rating: the records
\* before it, in order, are collected and handed to upsert_ratings, which applies them
\* in that order; that record and every later one are not; without a match (or with an
\* empty snapshot) every record of the stream is handed over.
C11_StopsAtFirstMatch ==
  LET first == FirstMatch(RatingStream, scrape.snapshot)
      before == SubSeq(RatingStream, 1, first - 1)
  IN /\ scrape.pc = "ratings" =>
          /\ scrape.i < first
          /\ scrape.ratings = SubSeq(RatingStream, 1, scrape.i)
     /\ RatingsDone => scrape.ratings = before
     /\ Assembled =>
          /\ SelectSeq(scrape.combined, RatedOnly) = before
          /\ SubSeq(scrape.combined, 1, first - 1) = before
          /\ hist.recs = scrape.combined
          /\ (DOMAIN scrape.snapshot = {} => Len(before) = Len(RatingStream))
          /\ (sess[1].pc = "loop" /\ sess[1].n >= 1 => sess[1].rec = scrape.combined[sess[1].n])

\* A stream of three records whose second is the first match has been scraped and stored.
C11_Witness ==
  /\ scrape.pc = "done" /\ scrape.result = "returned"
  /\ Len(RatingStream) = 3
  /\ FirstMatch(RatingStream, scrape.snapshot) = 2
  /\ Len(scrape.ratings) = 1

\* The stream reflects the current upstream ratings: one record per film.
OneRecordPerFilm(stream) ==
  \A k, m \in 1..Len(stream) : stream[k].slug = stream[m].slug => k = m

\* C12 as claimed: after an incremental scrape of a stream that reflects the current
\* upstream ratings, every record of the stream whose (slug, rating) is not in the
\* snapshot with the same value has been handed to upsert_ratings.
C12_NeverSkipsNewOrChanged ==
  (Assembled /\ scrape.incremental /\ OneRecordPerFilm(RatingStream)) =>
    \A k \in 1..Len(RatingStream) :
      ~ValueMatch(scrape.snapshot, RatingStream[k]) => RatingStream[k] \in Range(scrape.combined)

\* C12: after an incremental scrape of a stream that reflects the current upstream
\* ratings, every record of the stream whose (slug, rating) is not in the snapshot with
\* the same value, and which no record that is in the snapshot with the same value
\* precedes, has been handed to upsert_ratings.
C12_NoSkipAheadOfFirstMatch ==
  (Assembled /\ scrape.incremental /\ OneRecordPerFilm(RatingStream)) =>
    \A k \in 1..Len(RatingStream) :
      (\A m \in 1..k : ~ValueMatch(scrape.snapshot, RatingStream[m]))
        => \E n \in 1..Len(scrape.combined) : scrape.combined[n] = RatingStream[k]

\* An incremental scrape has stored a changed record that stood ahead of an unchanged one.
C12_Witness ==
  /\ scrape.pc = "done" /\ scrape.result = "returned" /\ scrape.incremental
  /\ Len(RatingStream) >= 2 /\ OneRecordPerFilm(RatingStream)
  /\ RatingStream[1].slug \in DOMAIN scrape.snapshot
  /\ ~ValueMatch(scrape.snapshot, RatingStream[1])
  /\ ValueMatch(scrape.snapshot, RatingStream[2])
  /\ RatingStream[1] \in Range(scrape.combined)

\* C13: a full scrape (incremental = False) hands every record the scraper yields to
\* upsert_ratings, whatever the snapshot holds: every record of the rating stream, and
\* every liked film the rating stream did not carry.
C13_FullScrapeIngestsAll ==
  (Assembled /\ ~scrape.incremental) =>
    /\ \A k \in 1..Len(RatingStream) : RatingStream[k] \in Range(scrape.combined)
    /\ \A k \in 1..Len(LikedStream) :
         LikedStream[k].slug \notin SlugsOf(scrape.ratings) => LikedStream[k] \in Range(scrape.combined)

----------------------------------------------------------------------------
(* Specification of one merge pass of cleanup dedupe-films over stored duplicates *)

InitMerge ==
  /\ dialect = "postgresql"
  /\ \E d \in MergeDBs : films = d.films /\ ratings = d.ratings
  /\ users = {UserRow(u, 0, 0) : u \in Usernames}
  /\ tx = [w \in Workers |-> NoTx]
  /\ sess = [w \in Workers |-> IdleSession]
  /\ clock = 1
  /\ started = 0
  /\ hist = NoHist
  /\ scrape = NoScrape /\ batch = NoBatch /\ merge = NoMerge /\ job = NoJob /\ rank = NoRank
  /\ MoreIdle

NextMerge ==
  \/ MergeBegin
  \/ MergeLoggedPairs
  \/ MergeSlugConflicts
  \/ MergeIdConflicts
  \/ MergeFlush

SpecMerge == InitMerge /\ [][NextMerge]_vars

RatingsOn(R, u, f) == {r \in R : r.user = u /\ r.film = f}

\* C14: once the merge pass has committed, for every merge of a duplicate A into a
\* canonical B: the row A is gone, no rating references A, B holds exactly one rating
\* for every user who had rated A or B, the ratings B held before are unchanged, and
\* among the rows that shared an external id the one with the lowest id survives.
C14_MergeKeepsOneRatingPerUser ==
  (merge.pc = "done" /\ merge.result = "ok") =>
    /\ \A k \in 1..Len(merge.calls) :
         LET B == merge.calls[k][1]
             A == merge.calls[k][2]
         IN /\ ~HasFilm(films, A)
            /\ \A r \in ratings : r.film # A
            /\ \A u \in Usernames :
                 (RatingsOn(merge.ratings0, u, A) # {} \/ RatingsOn(merge.ratings0, u, B) # {})
                   => Cardinality(RatingsOn(ratings, u, B)) = 1
            /\ \A r \in merge.ratings0 : r.film = B => r \in ratings
    /\ merge.pairs = <<>> =>
         \A l \in {f.lid : f \in merge.films0} \ {0} :
           LET ids == {f.id : f \in {x \in merge.films0 : x.lid = l}}
           IN {f.id : f \in {x \in films : x.lid = l}} = {LowestId(ids)}

----------------------------------------------------------------------------
(* Specification of tasks running inside job_run *)

InitJob ==
  /\ dialect = "postgresql"
  /\ films = {} /\ users = {} /\ ratings = {}
  /\ tx = [w \in Workers |-> NoTx]
  /\ sess = [w \in Workers |-> IdleSession]
  /\ clock = 1
  /\ started = 0
  /\ hist = NoHist
  /\ scrape = NoScrape /\ batch = NoBatch /\ merge = NoMerge /\ job = NoJob /\ rank = NoRank
  /\ MoreIdle

NextJob ==
  \/ JobCreate
  \/ StageEnter
  \/ StageCommit
  \/ StageRaise
  \/ BodyReturn
  \/ BodyInterrupt
  \/ JobFailed
  \/ JobSucceeded

SpecJob == InitJob /\ [][NextJob]_vars

\* C15: a job run is 'running' while its body runs and is finalized exactly once:
\* 'succeeded' when the body returns, 'failed' with last_error recorded when the body is
\* left by any exception, which is then re-raised; no run whose body has ended is left
\* 'running'.
C15_FinalizedExactlyOnce ==
  /\ \A r \in job.runs : r.id # job.run_id => r.status # "running"
  /\ job.pc \in {"body", "returned", "raised"} => TheRun(job).status = "running" /\ job.finals = 0
  /\ job.pc = "done" =>
       /\ job.finals = 1
       /\ TheRun(job).finished
       /\ job.exit = "return" => TheRun(job).status = "succeeded" /\ TheRun(job).last_error = ""
       /\ job.exit # "return" =>
            TheRun(job).status = "failed" /\ TheRun(job).last_error = job.error /\ job.reraised

Pipeline == job.name = "cohort_pipeline"

IsPrefix(p, q) == Len(p) <= Len(q) /\ p = SubSeq(q, 1, Len(p))

\* C16: run_cohort_pipeline runs its stages in the order membership refresh, member
\* scrape, aggregate refresh, ranking, insight, enrichment; a stage is entered only when
\* every stage before it has committed; when a stage fails the job is finalized 'failed'
\* with that stage's error, no later stage is entered, and the commits of the earlier
\* stages stay.
C16_StagesInOrder ==
  /\ [](Pipeline =>
          /\ IsPrefix(job.committed, StagesOf("cohort_pipeline"))
          /\ (job.entered => job.stage = Len(job.committed) + 1)
          /\ (job.exit = "Exception" =>
                /\ ~job.entered
                /\ job.error = StagesOf("cohort_pipeline")[Len(job.committed) + 1]
                /\ (job.pc = "done" => TheRun(job).status = "failed"
                                       /\ TheRun(job).last_error = job.error))
          /\ (job.exit = "return" => job.committed = StagesOf("cohort_pipeline")))
  /\ [][(Pipeline /\ job.exit = "Exception" /\ job'.run_id = job.run_id)
          => (job'.committed = job.committed /\ ~job'.entered)]_vars

\* The pipeline failed in its third stage and is finalized.
C16_Witness ==
  /\ Pipeline /\ job.pc = "done" /\ job.exit = "Exception"
  /\ job.committed = <<"refresh_cohort_membership", "scrape_cohort_members">>
  /\ TheRun(job).status = "failed"

----------------------------------------------------------------------------
(* Specification of batches of per-user scrapes *)

InitBatch ==
  /\ dialect = "postgresql"
  /\ films = {} /\ users = {} /\ ratings = {}
  /\ tx = [w \in Workers |-> NoTx]
  /\ sess = [w \in Workers |-> IdleSession]
  /\ clock = 1
  /\ started = 0
  /\ hist = NoHist
  /\ scrape = NoScrape /\ batch = NoBatch /\ merge = NoMerge /\ job = NoJob /\ rank = NoRank
  /\ MoreIdle

NextBatch ==
  \/ BatchStart
  \/ LoopScrapeReturns
  \/ LoopScrapeRaises
  \/ LoopReturn
  \/ \E i \in 1..Cardinality(BatchUsers) : PoolRun(i) \/ PoolFinish(i) \/ PoolCollect(i)
  \/ PoolRaise
  \/ PoolReturn

SpecBatch == InitBatch /\ [][NextBatch]_vars

\* C17: a batch of per-user scrapes that has ended has returned its summary rather than
\* raised, and every user of the batch was scraped or has failed on its own: the failure
\* of one user's scrape neither ends the batch nor keeps another user from being scraped.
C17_FailureIsolated ==
  batch.pc \in {"returned", "raised"} =>
    /\ batch.pc = "returned"
    /\ \A i \in 1..Len(batch.usernames) : batch.task[i] \in {"ok", "failed"}

----------------------------------------------------------------------------
(* Specification of rankings *)

InitRank ==
  /\ dialect = "postgresql"
  /\ films = {} /\ users = {} /\ ratings = {}
  /\ tx = [w \in Workers |-> NoTx]
  /\ sess = [w \in Workers |-> IdleSession]
  /\ clock = 1
  /\ started = 0
  /\ hist = NoHist
  /\ scrape = NoScrape /\ batch = NoBatch /\ merge = NoMerge /\ job = NoJob /\ rank = NoRank
  /\ MoreIdle

NextRank ==
  \/ RankBegin
  \/ BayesianQuery
  \/ BayesianResults
  \/ AffinityQuery
  \/ AffinityResults
  \/ RankAgain

SpecRank == InitRank /\ [][NextRank]_vars

FilmOrder(res) == [i \in 1..Len(res) |-> res[i].film_id]

\* C18: a strategy run twice on the same aggregate rows gives the same rank ordering of
\* the films both times, ties on score (and watchers) and the order in which the storage
\* engine returns the rows notwithstanding.
C18_RankingDeterministic ==
  (rank.pc = "ranked" /\ rank.runs = 2) => FilmOrder(rank.results) = FilmOrder(rank.first)

Eligible ==
  IF rank.strategy = "cohort_affinity"
  THEN {r \in rank.stats : r.watchers >= Max(1, rank.watchers_floor)}
  ELSE rank.stats

\* C19: the result of compute_cohort_affinity is sorted by score descending, equal scores
\* by watchers descending; the result of either strategy holds each film of its rows once,
\* and its i-th film has rank i, so that the ranks are exactly 1..n.
C19_SortedAndDenselyRanked ==
  rank.pc = "ranked" =>
    LET res == rank.results
    IN /\ Len(res) = Cardinality(Eligible)
       /\ {res[i].film_id : i \in 1..Len(res)} = {r.film_id : r \in Eligible}
       /\ \A i \in 1..Len(res) : res[i].rank = i
       /\ rank.strategy = "cohort_affinity" =>
            \A i, j \in 1..Len(res) : i < j =>
              \/ res[i].score > res[j].score
              \/ res[i].score = res[j].score /\ res[i].watchers >= res[j].watchers

\* Reached: two films of equal affinity score are ranked, the one with more watchers, which
\* the storage engine returned last, first.
C19_Witness ==
  /\ rank.pc = "ranked" /\ rank.strategy = "cohort_affinity" /\ Len(rank.results) >= 2
  /\ rank.results[1].score = rank.results[2].score
  /\ rank.results[1].watchers > rank.results[2].watchers
  /\ rank.rows[Len(rank.rows)].film_id = rank.results[1].film_id

\* The cohort-wide average of the ranked rows is c tenths of a star.
CohortAverageIs(c) == SumRatings(rank.stats) = c * Cardinality(rank.stats)

\* C20: every film of the cohort gets the bayesian score s with
\* s * (w + m) = w * r + m * c, c the mean of the cohort's average ratings; for w = 10,
\* r = 4.0, c = 3.0 and m = 50 the score is within 0.001 of 3.1667.
C20_BayesianScore ==
  (rank.pc = "ranked" /\ rank.strategy = "bayesian") =>
    /\ {rank.results[i].film_id : i \in 1..Len(rank.results)} = {r.film_id : r \in rank.stats}
    /\ \A i \in 1..Len(rank.results) : \A r \in rank.stats :
         r.film_id = rank.results[i].film_id =>
           LET s == rank.results[i].score
               n == Cardinality(rank.stats)
           IN /\ s.den > 0
              /\ s.num * (r.watchers + rank.m_value) * n
                   = (r.watchers * r.avg_rating * n + rank.m_value * SumRatings(rank.stats)) * s.den
              /\ (r.watchers = 10 /\ r.avg_rating = 40 /\ CohortAverageIs(30) /\ rank.m_value = 50) =>
                   /\ 1000 * s.num - 31667 * s.den <= 10 * s.den
                   /\ 31667 * s.den - 1000 * s.num <= 10 * s.den

\* Reached: a film with 10 watchers and average 4.0 in a cohort of average 3.0 is scored
\* with prior strength 50.
C20_Witness ==
  /\ rank.pc = "ranked" /\ rank.strategy = "bayesian" /\ rank.m_value = 50
  /\ CohortAverageIs(30)
  /\ \E i \in 1..Len(rank.results) : \E r \in rank.stats :
       r.film_id = rank.results[i].film_id /\ r.watchers = 10 /\ r.avg_rating = 40

----------------------------------------------------------------------------
(* Specification of classify_distribution_label *)

InitIdle ==
  /\ dialect = "postgresql"
  /\ films = {} /\ users = {} /\ ratings = {}
  /\ tx = [w \in Workers |-> NoTx]
  /\ sess = [w \in Workers |-> IdleSession]
  /\ clock = 1
  /\ started = 0
  /\ hist = NoHist
  /\ OthersIdle

NextClassify ==
  \/ ClassifyCall
  \/ ClassifyReturn

SpecClassify == InitIdle /\ [][NextClassify]_vars

DistributionLabels ==
  {"unknown", "strong-left", "left", "right", "bimodal-low-high", "bimodal-mid", "balanced", "mixed"}

Classified == calc.pc = "returned" /\ calc.fn = "classify_distribution_label"

TopShare(a, num, den) == den * a.counts.count_gte_4_5 >= num * a.watchers
HighShare(a) == a.counts.count_gte_4_5 + a.counts.count_4_0_4_5
LowShare(a) == a.counts.count_2_5_3_0 + a.counts.count_lt_2_5

\* C21: classify_distribution_label returns a label and a bonus for every histogram:
\* ("unknown", 0) when watchers <= 0; ("strong-left", +0.30) when watchers > 0, at least
\* 40% of the watchers are in the top bucket and at most 10% in the bottom two; a negative
\* bonus when more than 45% are in the bottom two buckets and at most 20% in the top two;
\* and a bonus between -0.15 and +0.30 always.
C21_ClassifierContract ==
  Classified =>
    LET a == calc.args
        out == calc.out
    IN /\ out.label \in DistributionLabels
       /\ out.bonus >= -15 /\ out.bonus <= 30
       /\ a.watchers <= 0 => out = [label |-> "unknown", bonus |-> 0]
       /\ (a.watchers > 0 /\ TopShare(a, 4, 10) /\ 10 * LowShare(a) <= a.watchers)
            => out = [label |-> "strong-left", bonus |-> 30]
       /\ (a.watchers > 0 /\ 100 * LowShare(a) > 45 * a.watchers /\ 10 * HighShare(a) <= 2 * a.watchers)
            => out.bonus < 0

\* Reached: a histogram that also satisfies the rule of "left" (60% in the top two buckets)
\* is classified strong-left by the first rule.
C21_Witness ==
  /\ Classified /\ calc.args.watchers = 10
  /\ calc.args.counts.count_gte_4_5 = 6 /\ calc.args.counts.count_lt_2_5 = 1
  /\ calc.out.label = "strong-left"

----------------------------------------------------------------------------
(* Specification of compute_rankings with persist_rankings *)

InitStore ==
  /\ dialect = "postgresql"
  /\ films = {} /\ users = {} /\ ratings = {}
  /\ tx = [w \in Workers |-> NoTx]
  /\ sess = [w \in Workers |-> IdleSession]
  /\ clock = 1
  /\ started = 0
  /\ hist = NoHist
  /\ scrape = NoScrape /\ batch = NoBatch /\ merge = NoMerge /\ job = NoJob /\ rank = NoRank
  /\ calc = NoCalc /\ graph = NoGraph /\ retry = NoRetry
  /\ \E t \in RankingTables : store = [NoStore EXCEPT !.film_rankings = t]

NextStore ==
  \/ ComputeRankings
  \/ ComputeRankingsUnsupported
  \/ PersistRankingsDelete
  \/ PersistRankingsAdd
  \/ CommitRankings

SpecStore == InitStore /\ [][NextStore]_vars

\* C22: when compute_rankings has committed, the rows of film_rankings under its
\* (cohort, strategy) are exactly one row per fresh result, each with the parameters of
\* this computation, and the rows under every other (cohort, strategy) are those stored
\* before the call.
C22_RankingsReplacedWholesale ==
  (store.pc = "committed" /\ store.fn = "compute_rankings") =>
    /\ UnderKey(store.film_rankings, store.cohort_id, store.strategy)
         = {[cohort_id |-> store.cohort_id, strategy |-> store.strategy,
             film_id |-> store.results[i].film_id, score |-> store.results[i].score,
             rank |-> store.results[i].rank, params |-> store.params] :
              i \in 1..Len(store.results)}
    /\ store.film_rankings \ UnderKey(store.film_rankings, store.cohort_id, store.strategy)
         = store.before \ UnderKey(store.before, store.cohort_id, store.strategy)

\* Reached: an empty result set has replaced two stored rows while the other strategy of
\* the same cohort keeps its rows.
C22_Witness ==
  /\ store.pc = "committed" /\ store.fn = "compute_rankings" /\ store.results = <<>>
  /\ Cardinality(UnderKey(store.before, store.cohort_id, store.strategy)) = 2
  /\ \E r \in store.film_rankings : r.cohort_id = store.cohort_id /\ r.strategy # store.strategy

----------------------------------------------------------------------------
(* Specification of _percentile_lookup *)

NextPercentile ==
  \/ PercentileCall
  \/ PercentileReturn

SpecPercentile == InitIdle /\ [][NextPercentile]_vars

\* Positions of v in the sorted population, counted from the population itself.
FirstPosition(values, v) == Cardinality({i \in 1..Len(values) : values[i] < v}) + 1
LastPosition(values, v) == Cardinality({i \in 1..Len(values) : values[i] <= v})

\* C24: the percentile of every value v of a population of size n is
\* 100 * (first position + last position of v in sorted order) / 2 / n, which lies in
\* (0, 100]; every occurrence of v gets this one percentile; in [1,2,2,3] the value 2
\* gets 62.5.
C24_PercentileIsAverageRank ==
  (calc.pc = "returned" /\ calc.fn = "_percentile_lookup") =>
    LET values == calc.args
        n == Len(values)
    IN /\ DOMAIN calc.out = Range(values)
       /\ \A i \in 1..n :
            LET p == calc.out[values[i]]
            IN /\ p.den > 0
               /\ p.num * 2 * n
                    = 100 * (FirstPosition(values, values[i]) + LastPosition(values, values[i])) * p.den
               /\ p.num > 0 /\ p.num <= 100 * p.den
       /\ sorted_vals(values) = <<1, 2, 2, 3>> => 10 * calc.out[2].num = 625 * calc.out[2].den

\* Reached: the population 2, 3, 1, 2 with its tie on 2.
C24_Witness ==
  /\ calc.pc = "returned" /\ calc.fn = "_percentile_lookup"
  /\ calc.args = <<2, 3, 1, 2>>
  /\ 10 * calc.out[2].num = 625 * calc.out[2].den

----------------------------------------------------------------------------
(* Specification of _derive_insights *)

NextDerive ==
  \/ DeriveCall
  \/ DeriveReturn

SpecDerive == InitIdle /\ [][NextDerive]_vars

Derived == calc.pc = "returned" /\ calc.fn = "_derive_insights"

GroupSize(ins, label) == Cardinality({i \in 1..Len(ins) : ins[i].bucket_label = label})

\* Within one bucket label: rating percentile descending, then watcher percentile descending.
OrderedWithinGroup(a, b) ==
  \/ PctGt(a.rating_percentile, b.rating_percentile)
  \/ /\ PctEq(a.rating_percentile, b.rating_percentile)
     /\ ~PctGt(b.watchers_percentile, a.watchers_percentile)

\* C25 as stated: the insights of compute_ranking_buckets are ordered by bucket group, the
\* groups by descending group size and then by label text, and within a group by
\* descending rating percentile and then descending watcher percentile.
C25_GroupsBySizeThenLabel ==
  Derived =>
    \A i, j \in 1..Len(calc.out) : i < j =>
      LET a == calc.out[i]
          b == calc.out[j]
      IN \/ GroupSize(calc.out, a.bucket_label) > GroupSize(calc.out, b.bucket_label)
         \/ /\ GroupSize(calc.out, a.bucket_label) = GroupSize(calc.out, b.bucket_label)
            /\ LabelPosition(a.bucket_label) < LabelPosition(b.bucket_label)
         \/ a.bucket_label = b.bucket_label /\ OrderedWithinGroup(a, b)

\* C25, amended: the insights of compute_ranking_buckets are ordered by bucket group, the
\* groups by label text, and within a group by descending rating percentile and then
\* descending watcher percentile; there is one insight per row with watchers and rating.
C25_GroupsByLabel ==
  Derived =>
    /\ {calc.out[i].film_id : i \in 1..Len(calc.out)}
         = {calc.args[k].film_id : k \in {k \in 1..Len(calc.args) :
                                            calc.args[k].watchers > 0 /\ calc.args[k].avg_rating > 0}}
    /\ \A i, j \in 1..Len(calc.out) : i < j =>
         LET a == calc.out[i]
             b == calc.out[j]
         IN \/ LabelPosition(a.bucket_label) < LabelPosition(b.bucket_label)
            \/ a.bucket_label = b.bucket_label /\ OrderedWithinGroup(a, b)

\* Reached: a group of one film precedes, by its label, a group of two films, and the two
\* films of that group tie on the rating percentile and are ordered by watchers.
C25_Witness ==
  /\ Derived /\ Len(calc.out) = 3
  /\ calc.out[1].bucket_label # calc.out[2].bucket_label
  /\ calc.out[2].bucket_label = calc.out[3].bucket_label
  /\ PctEq(calc.out[2].rating_percentile, calc.out[3].rating_percentile)
  /\ PctGt(calc.out[2].watchers_percentile, calc.out[3].watchers_percentile)
  /\ calc.args[Len(calc.args)].film_id = calc.out[2].film_id

----------------------------------------------------------------------------
(* Specification of BucketFilters.to_timeframe_key *)

NextTimeframeKey ==
  \/ TimeframeKeyCall
  \/ TimeframeKeyReturn

SpecTimeframeKey == InitIdle /\ [][NextTimeframeKey]_vars

Keyed == calc.pc = "returned" /\ calc.fn = "to_timeframe_key"

KeyExamples(range_key) ==
  Keyed =>
    /\ calc.args = NoFilter => calc.out = "all"
    /\ calc.args = [NoFilter EXCEPT !.release_start = Some(1990), !.release_end = Some(1999)]
         => calc.out = "release:1990-1999"
    /\ calc.args = [NoFilter EXCEPT !.watched_year = Some(2023)] => calc.out = "watched-year:2023"
    /\ calc.args = [NoFilter EXCEPT !.watched_since = Some(<<2023, 1, 1>>),
                                    !.watched_until = Some(<<2023, 6, 30>>)]
         => calc.out = range_key

\* C26 as stated: the key of no filter is "all", of release years 1990..1999
\* "release:1990-1999", of watched year 2023 "watched-year:2023", and of a watched range
\* from 2023-01-01 until 2023-06-30 "watched:2023-01-01--2023-06-30".
C26_KeysAsStated == KeyExamples("watched:2023-01-01--2023-06-30")

\* C26, amended: the same, with the key of the watched range from 2023-01-01 until
\* 2023-06-30 being "watched:2023-01-01-2023-06-30".
C26_KeysOfTheCode == KeyExamples("watched:2023-01-01-2023-06-30")

\* Reached: the key of the watched range has been computed.
C26_Witness ==
  /\ Keyed
  /\ calc.args = [NoFilter EXCEPT !.watched_since = Some(<<2023, 1, 1>>),
                                  !.watched_until = Some(<<2023, 6, 30>>)]
  /\ calc.out = "watched:2023-01-01-2023-06-30"

----------------------------------------------------------------------------
(* Specification of compute_bucket_insights, the buckets command and load_saved_buckets *)

InitInsights ==
  /\ dialect = "postgresql"
  /\ films = {} /\ users = {} /\ ratings = {}
  /\ tx = [w \in Workers |-> NoTx]
  /\ sess = [w \in Workers |-> IdleSession]
  /\ clock = 1
  /\ started = 0
  /\ hist = NoHist
  /\ scrape = NoScrape /\ batch = NoBatch /\ merge = NoMerge /\ job = NoJob /\ rank = NoRank
  /\ calc = NoCalc /\ graph = NoGraph /\ retry = NoRetry
  /\ \E t \in InsightTables : store = [NoStore EXCEPT !.ranking_insights = t]

NextInsights ==
  \/ ComputeBucketInsights
  \/ BucketsCommand
  \/ PersistInsightsDelete
  \/ PersistInsightsAdd
  \/ PersistInsightsSkipped
  \/ CommitInsights
  \/ StatsChange
  \/ LoadSavedBuckets

SpecInsights == InitInsights /\ [][NextInsights]_vars

\* C23: when a computation of insights that was asked to persist has committed, the rows
\* of ranking_insights under its (cohort, strategy, timeframe key) are exactly the rows of
\* its fresh insights, also when there are none.
C23_InsightsReplacedWholesale ==
  (store.pc = "committed" /\ store.fn = "compute_bucket_insights" /\ store.persist) =>
    UnderTimeframe(store.ranking_insights, store.results.cohort_id, store.results.strategy,
                   store.results.timeframe_key)
      = InsightRows(store.results)

Loaded == store.pc = "loaded" /\ store.fn = "load_saved_buckets"

SameKey(computation) ==
  /\ computation.cohort_id = store.cohort_id
  /\ computation.strategy = store.strategy
  /\ computation.timeframe_key = store.timeframe_key

\* C27: load_saved_buckets under the key of the computation persisted last returns the
\* insights of that computation (the same films with the same values and labels), with
\* the filters of that computation and the source "stored", whatever has become of the
\* aggregates since; under a key with no stored row it returns None.
C27_LoadReturnsPersisted ==
  Loaded =>
    /\ UnderTimeframe(store.ranking_insights, store.cohort_id, store.strategy, store.timeframe_key) = {}
         => store.out = None
    /\ \A computation \in store.persisted : SameKey(computation) =>
         /\ store.out # None
         /\ \A loaded \in store.out :
              /\ loaded.source = "stored"
              /\ loaded.filters = computation.filters
              /\ Len(loaded.insights) = Len(computation.insights)
              /\ Range(loaded.insights) = Range(computation.insights)
              /\ loaded.cohort_id = computation.cohort_id
              /\ loaded.timeframe_key = computation.timeframe_key

\* Reached: the insight of the one film rated inside a watched range, persisted under the
\* key of the range, is loaded back after the aggregates were emptied.
C27_Witness ==
  /\ Loaded /\ store.stats = <<>>
  /\ \E computation \in store.persisted :
       /\ SameKey(computation) /\ Len(computation.insights) = 1
       /\ Present(computation.filters.watched_since)
  /\ \E loaded \in store.out : Len(loaded.insights) = 1

----------------------------------------------------------------------------
(* Specification of _execute_with_deadlock_retry *)

NextRetry ==
  \/ RetryCall
  \/ ExecuteReturns
  \/ ExecuteRaises
  \/ ExecuteDeadlock

SpecRetry == InitIdle /\ [][NextRetry]_vars

IsDeadlock(exc) ==
  exc.class = "OperationalError" /\ (exc.pgcode = "40P01" \/ exc.deadlock_detected)

\* The parts of the contract that do not concern the length of the delays.
RetryEnds ==
  /\ retry.executions <= 5
  /\ retry.executions = Len(retry.seen) + (IF retry.pc = "returned" THEN 1 ELSE 0)
  /\ Len(retry.slept) = (IF retry.pc = "raised" THEN Len(retry.seen) - 1 ELSE Len(retry.seen))
  /\ \A k \in 1..Len(retry.slept) : IsDeadlock(retry.seen[k])
  /\ retry.pc = "attempt" => retry.executions < 5
  /\ retry.pc = "returned" => retry.out = "result" /\ retry.raised = {}
  /\ retry.pc = "raised" =>
       /\ retry.raised = {retry.seen[Len(retry.seen)]}
       /\ \A exc \in retry.raised : IsDeadlock(exc) => retry.executions = 5
  /\ retry.pc # "raised" => retry.raised = {}

\* C28 as stated: at most 5 executions, a retry only after a deadlock, any other error
\* raised at once, a deadlock on the last attempt raised, the first success returned,
\* and the delay before the retry after the k-th failure grows exponentially: it is at
\* least base_delay * 2^(k-1), jitter only adding to it.
C28_ExponentialBackoff ==
  /\ RetryEnds
  /\ \A k \in 1..Len(retry.slept) : retry.slept[k] >= 50 * 2 ^ (k - 1)

\* C28 (amended): at most 5 executions, a retry only after a deadlock, any other error
\* raised at once, a deadlock on the last attempt raised, the first success returned,
\* and the delay before the retry after the k-th failure is exactly base_delay * k
\* (50, 100, 150, 200 ms), with no random part.
C28_LinearBackoff ==
  /\ RetryEnds
  /\ \A k \in 1..Len(retry.slept) : retry.slept[k] = 50 * k

\* Reached: four deadlocks, each slept after, and the fifth attempt deadlocks and raises.
C28_Witness ==
  /\ retry.pc = "raised" /\ retry.executions = 5
  /\ retry.slept = <<50, 100, 150, 200>>
  /\ \A exc \in retry.raised : IsDeadlock(exc)

----------------------------------------------------------------------------
(* Specification of a cohort refresh *)

InitGraph ==
  /\ dialect = "postgresql"
  /\ films = {} /\ users = {} /\ ratings = {}
  /\ tx = [w \in Workers |-> NoTx]
  /\ sess = [w \in Workers |-> IdleSession]
  /\ clock = 1
  /\ started = 0
  /\ hist = NoHist
  /\ scrape = NoScrape /\ batch = NoBatch /\ merge = NoMerge /\ job = NoJob /\ rank = NoRank
  /\ calc = NoCalc /\ store = NoStore /\ retry = NoRetry
  /\ \E g \in FollowGraphs : \E depth \in Depths : \E include_seed \in BOOLEAN :
     \E t \in MemberTables : \E known \in StoredUsers :
       graph = [NoGraph EXCEPT !.following = g, !.depth = depth, !.known = known,
                               !.include_seed = include_seed, !.cohort_members = t]

NextGraph ==
  \/ RefreshBegin
  \/ FetchFollowing
  \/ NextLevel
  \/ RefreshMembersBegin
  \/ AddMember
  \/ RefreshCommit

SpecGraph == InitGraph /\ [][NextGraph]_vars

\* The users at most n follows away from the seed.
RECURSIVE Within(_)
Within(n) ==
  IF n = 0 THEN {"seed"}
  ELSE Within(n - 1) \cup UNION {graph.following[u] : u \in Within(n - 1)}

\* The shortest follow-graph distance of a user of Within(graph.depth) from the seed.
Distance(u) == CHOOSE n \in 0..graph.depth : u \in Within(n) /\ \A m \in 0..(n - 1) : u \notin Within(m)

\* C29: when a refresh of cohort 1 has committed, its members are the users within the
\* depth of the seed, each stored with its shortest distance from the seed, the seed
\* itself (depth 0) only when include_seed is set, and the members of the other cohort
\* are those stored before.
C29_MembersAtShortestDistance ==
  graph.pc = "refreshed" =>
    /\ {r \in graph.cohort_members : r.cohort_id = 1}
         = {[cohort_id |-> 1, user |-> u, depth |-> Distance(u)] :
              u \in {v \in Within(graph.depth) : v # "seed" \/ graph.include_seed}}
    /\ {r \in graph.cohort_members : r.cohort_id # 1} = {r \in graph.before : r.cohort_id # 1}

----------------------------------------------------------------------------
(* Specification of two workers ingesting batches for the same username *)

InitSameUser ==
  /\ dialect \in {"postgresql", "sqlite"}
  /\ films = {} /\ ratings = {}
  /\ users \in {{}, {UserRow("u1", 0, 0)}}
  /\ tx = [w \in Workers |-> NoTx]
  /\ sess = [w \in Workers |-> IdleSession]
  /\ clock = 1
  /\ started = 0
  /\ \E rec \in IdentityPool : hist = [NoHist EXCEPT !.phase = 4, !.recs = <<rec>>]
  /\ OthersIdle

NextSameUser ==
  \E w \in Workers :
       \/ StartBatch(w, {"u1"}, 0)
       \/ UserSelect(w)
       \/ UserInsert(w)
       \/ NextRecord(w, IdentityPool)
       \/ PgInsert(w)
       \/ PgRefind(w)
       \/ SpBegin(w)
       \/ SpInsert(w)
       \/ SpRefind(w)
       \/ EndRecords(w, {<<TRUE, FALSE>>}, {{"-"}})
       \/ Commit(w)

SpecSameUser == InitSameUser /\ [][NextSameUser]_vars

\* C30: when two workers ingest batches for the same username, stored or not, no batch
\* fails with a uniqueness error on users, and when both batches are committed exactly
\* one user row exists.
C30_SameUserNeverFails ==
  /\ \A w \in Workers : sess[w].err # "IntegrityError:users"
  /\ (\A w \in Workers : sess[w].result = "ok" /\ sess[w].pc = "idle") => Cardinality(users) = 1

====
